---- MODULE Spec2Model ----
(***************************************************************************)
(* A model of the reading-session controller of the ereader repository:    *)
(* the LLM request client (src/utils/llm-client.ts, src/services/llm.ts),  *)
(* the reader hook (src/hooks/useEpubReader.ts), the application store     *)
(* (store/useBookStore) and the durable store (services/db).               *)
(*                                                                         *)
(* Strings that the code inspects are modelled as sequences: a URL is a    *)
(* sequence of tokens ("https://", "/", "v1", ...), a paragraph text is a  *)
(* sequence of UTF-16 code units.                                          *)
(***************************************************************************)
EXTENDS Integers, Sequences, FiniteSets, TLC

(***************************************************************************)
(* Bounds of the model.                                                    *)
(***************************************************************************)
\* the clock stops advancing after this many milliseconds
MaxClock == 5000
\* LocationEvents emitted in one run
MaxEvents == 3
\* book-document handles created in one run
MaxHandles == 2
\* content documents injected in one run
MaxDocs == 2
\* translation requests started in one run
MaxRequests == 2
\* getBookFile promises of one book in flight at a time
MaxLoads == 2
\* entries of a book's spine
MaxSpine == 2
\* goToChapter calls
MaxNavs == 2

(***************************************************************************)
(* Program constants.                                                      *)
(***************************************************************************)
\* one retry more than DEFAULT_OPTIONS allows
maxRetriesThree == 2 + 1
\* DEFAULT_OPTIONS.maxRetries
maxRetries == 2
\* DEFAULT_OPTIONS.retryDelayMs
retryDelayMs == 1000
\* const throttleMs = 1500 in scheduleProgressSave
throttleMs == 1500
\* saveTranslation calls made on the cache directly
MaxPuts == 3
\* page turns requested in one run
MaxTurns == 2
\* navigation keys dropped in one run
MaxDropped == 2
\* the clock of a long reading stops advancing after this many milliseconds
MaxReadingClock == 9500
\* database transactions created in one run
MaxTransactions == 4
\* MAX_TEXT_LENGTH
MAX_TEXT_LENGTH == 6000

(***************************************************************************)
(* Generic helpers on sequences.                                           *)
(***************************************************************************)
EndsWith(s, suf) ==
    /\ Len(suf) <= Len(s)
    /\ SubSeq(s, Len(s) - Len(suf) + 1, Len(s)) = suf

Includes(s, sub) ==
    \E i \in 1..(Len(s) - Len(sub) + 1) : SubSeq(s, i, i + Len(sub) - 1) = sub

RECURSIVE Pow2(_)
Pow2(n) == IF n = 0 THEN 1 ELSE 2 * Pow2(n - 1)

(***************************************************************************)
(* LLM request client: src/utils/llm-client.ts                             *)
(***************************************************************************)
\* the tokens a configured URL is made of
SchemeTokens == {"http://", "https://", "HTTPS://"}
V1Suffix == <<"/", "v1">>
CompletionPath == <<"/", "chat", "/", "completions">>

\* String.prototype.trim on a token sequence: drop leading and trailing blanks
RECURSIVE TrimLeft(_)
TrimLeft(s) == IF s # <<>> /\ Head(s) = " " THEN TrimLeft(Tail(s)) ELSE s

RECURSIVE TrimRight(_)
TrimRight(s) ==
    IF s # <<>> /\ s[Len(s)] = " " THEN TrimRight(SubSeq(s, 1, Len(s) - 1)) ELSE s

Trim(s) == TrimRight(TrimLeft(s))

\* replace(/\/+$/, ''): drop every trailing slash
RECURSIVE StripTrailingSlashes(_)
StripTrailingSlashes(s) ==
    IF s # <<>> /\ s[Len(s)] = "/"
    THEN StripTrailingSlashes(SubSeq(s, 1, Len(s) - 1))
    ELSE s

\* trailing slashes are kept
normalizeApiUrlKeepSlashes(url) ==
    LET trimmed == Trim(url) IN
    IF EndsWith(trimmed, V1Suffix) THEN trimmed \o CompletionPath
    ELSE IF ~Includes(trimmed, CompletionPath) THEN trimmed \o CompletionPath
    ELSE trimmed

normalizeApiUrl(url) ==
    LET trimmed == StripTrailingSlashes(Trim(url)) IN
    IF EndsWith(trimmed, V1Suffix) THEN trimmed \o CompletionPath
    ELSE IF ~Includes(trimmed, CompletionPath) THEN trimmed \o CompletionPath
    ELSE trimmed

\* the test without its i flag
isAbsoluteUrlCaseSensitive(endpoint) ==
    endpoint # <<>> /\ Head(endpoint) \in {"http://", "https://"}

\* /^https?:\/\//i.test(endpoint)
isAbsoluteUrl(endpoint) == endpoint # <<>> /\ Head(endpoint) \in SchemeTokens

\* every 4xx taken for transient
isRetryableErrorAny4xx(status) == status >= 400 /\ status < 600

isRetryableError(status) == status = 429 \/ (status >= 500 /\ status < 600)

\* response.ok
ResponseOk(status) == status >= 200 /\ status <= 299

\* statusCode of an error that carries none (TranslationError.statusCode undefined)
NoStatus == 0 - 1

\* the text of an error message: a fixed text and the status it quotes, if any
Message(text, status) == [text |-> text, status |-> status]

NoError ==
    [name |-> "none", message |-> Message("", NoStatus),
     statusCode |-> NoStatus, isRetryable |-> FALSE]

TranslationError(message, statusCode, retryable) ==
    [name |-> "TranslationError", message |-> message,
     statusCode |-> statusCode, isRetryable |-> retryable]

\* an error that is not a TranslationError (fetch rejected, body not JSON)
PlainError(message) ==
    [name |-> "Error", message |-> message, statusCode |-> NoStatus, isRetryable |-> FALSE]

\* what one fetch can come back with
HttpResponse(status, content) == [kind |-> "http", status |-> status, content |-> content]
TransportFailure == [kind |-> "reject", status |-> NoStatus, content |-> ""]
UnparsableBody == [kind |-> "badjson", status |-> 200, content |-> ""]
\* a 2xx body that parses and has no choices array: data.choices[0] throws
MissingChoices == [kind |-> "nochoices", status |-> 200, content |-> ""]

\* the Authorization header is sent to every endpoint
NewCallAuthorizeAlways(endpoint, absolute, apiKey) ==
    [phase |-> "fetching", attempt |-> 0, fetches |-> 1, waits |-> <<>>,
     endpoint |-> endpoint, authorization |-> <<"Bearer", apiKey>>,
     lastError |-> NoError, result |-> ""]

\* the state of one chatCompletion call
\*   phase    "fetching": a fetch is awaited; "delay": delay(waitTime) is awaited;
\*            "returned" / "thrown": the call has settled
\*   attempt  the loop variable
\*   fetches  the number of fetch calls issued
\*   waits    the backoff delays awaited, in order
NewCall(endpoint, absolute, apiKey) ==
    [phase |-> "fetching", attempt |-> 0, fetches |-> 1, waits |-> <<>>,
     endpoint |-> endpoint, authorization |-> IF absolute THEN <<"Bearer", apiKey>> ELSE <<>>,
     lastError |-> NoError, result |-> ""]

\* createLLMClient(config, apiKey).chatCompletion(...) up to its first await
ChatCompletionStart(apiUrl, apiKey) ==
    LET endpoint == normalizeApiUrl(apiUrl)
        absolute == isAbsoluteUrl(endpoint)
    IN  IF absolute /\ apiKey = ""
        THEN [NewCall(endpoint, absolute, apiKey) EXCEPT
                !.phase = "thrown", !.fetches = 0,
                !.lastError = TranslationError(Message("API Key is required", NoStatus), NoStatus, FALSE)]
        ELSE NewCall(endpoint, absolute, apiKey)

\* an empty answer is thrown as a retryable error
AttemptErrorEmptyRetryable(resp) ==
    CASE resp.kind = "reject" -> PlainError(Message("Failed to fetch", NoStatus))
      [] resp.kind = "badjson" -> PlainError(Message("Unexpected token", NoStatus))
      [] resp.kind = "nochoices" -> PlainError(Message("Cannot read properties", NoStatus))
      [] resp.kind = "http" /\ ~ResponseOk(resp.status) ->
            TranslationError(Message("API error", resp.status), resp.status,
                             isRetryableError(resp.status))
      [] resp.kind = "http" /\ ResponseOk(resp.status) /\ resp.content = "" ->
            TranslationError(Message("Empty response from API", NoStatus), NoStatus, TRUE)
      [] OTHER -> NoError

\* a rejected fetch is thrown as a retryable error
AttemptErrorTransportRetryable(resp) ==
    CASE resp.kind = "reject" ->
            TranslationError(Message("Failed to fetch", NoStatus), NoStatus, TRUE)
      [] resp.kind = "badjson" -> PlainError(Message("Unexpected token", NoStatus))
      [] resp.kind = "nochoices" -> PlainError(Message("Cannot read properties", NoStatus))
      [] resp.kind = "http" /\ ~ResponseOk(resp.status) ->
            TranslationError(Message("API error", resp.status), resp.status,
                             isRetryableError(resp.status))
      [] resp.kind = "http" /\ ResponseOk(resp.status) /\ resp.content = "" ->
            TranslationError(Message("Empty response from API", NoStatus), NoStatus, FALSE)
      [] OTHER -> NoError

\* the error the try block throws for a response, NoError when it returns
AttemptError(resp) ==
    CASE resp.kind = "reject" -> PlainError(Message("Failed to fetch", NoStatus))
      [] resp.kind = "badjson" -> PlainError(Message("Unexpected token", NoStatus))
      [] resp.kind = "nochoices" -> PlainError(Message("Cannot read properties", NoStatus))
      [] resp.kind = "http" /\ ~ResponseOk(resp.status) ->
            TranslationError(Message("API error", resp.status), resp.status,
                             isRetryableError(resp.status))
      [] resp.kind = "http" /\ ResponseOk(resp.status) /\ resp.content = "" ->
            TranslationError(Message("Empty response from API", NoStatus), NoStatus, FALSE)
      [] OTHER -> NoError

\* the same wait before every retry
waitTimeConstant(attempt) == retryDelayMs

\* const waitTime = opts.retryDelayMs * Math.pow(2, attempt)
waitTime(attempt) == retryDelayMs * Pow2(attempt)

\* delay(ms) started at time t: setTimeout resolves it at t + ms at the earliest
delayResolvesAt(t, ms) == t + ms

\* no message is cut
truncateMessagesNone(messages) == messages

\* const safeMessages = messages.map(...): content longer than MAX_TEXT_LENGTH
\* is cut to content.slice(0, MAX_TEXT_LENGTH)
truncateMessages(messages) ==
    [i \in DOMAIN messages |->
        [messages[i] EXCEPT !.content =
            IF Len(@) > MAX_TEXT_LENGTH THEN SubSeq(@, 1, MAX_TEXT_LENGTH) ELSE @]]

\* one fetch(endpoint, {headers, body}) as it goes out at time t
FetchRequest(t, call, messages) ==
    [at |-> t, authorization |-> call.authorization, messages |-> messages]

\* one retry short
hasRetriesLeftOffByOne(attempt) == attempt < maxRetries - 1

\* attempt < opts.maxRetries
hasRetriesLeft(attempt) == attempt < maxRetries

\* the loop body of chatCompletion once the awaited fetch has settled
ChatCompletionOnResponse(call, resp) ==
    LET error == AttemptError(resp)
        retryable == error.name = "TranslationError" /\ error.isRetryable
    IN  IF error = NoError
        THEN [call EXCEPT !.phase = "returned", !.result = resp.content]
        ELSE IF retryable /\ hasRetriesLeft(call.attempt)
        THEN [call EXCEPT !.phase = "delay", !.lastError = error,
                          !.waits = Append(@, waitTime(call.attempt))]
        ELSE [call EXCEPT !.phase = "thrown", !.lastError = error]

\* delay(waitTime) resolved: continue; attempt++; attempt <= opts.maxRetries
ChatCompletionOnDelay(call) ==
    IF call.attempt + 1 <= maxRetries
    THEN [call EXCEPT !.phase = "fetching", !.attempt = @ + 1, !.fetches = @ + 1]
    ELSE [call EXCEPT !.phase = "thrown", !.attempt = @ + 1]

\* convertError of src/services/llm.ts
convertError(error) ==
    IF error.name = "TranslationError" THEN error
    ELSE TranslationError(error.message, NoStatus, FALSE)

(***************************************************************************)
(* State.                                                                  *)
(***************************************************************************)
VARIABLES
    \* --- one chatCompletion call observed on its own ---
    clientCall, \* the call's state (phase "idle" before it is made)
    callInput,  \* the apiUrl and apiKey the client was created with, the messages
                \* chatCompletion was called with, and when
    served,     \* the responses the backend has given to this call, in order
    safeMessages,   \* the call's safeMessages
    wire,       \* the fetches the call has issued, in order
    answeredAt, \* when each response was handled
    \* --- the application shell and the store ---
    now,            \* Date.now()
    currentBook,    \* useBookStore.currentBook (its id)
    books,          \* useBookStore.books: id -> [cfi, progress]
    settings,       \* useBookStore.settings (the fields the reader reads)
    translations,   \* useBookStore.translations: <<bookId, textHash>> -> text
    bookData,       \* App's bookData state: the book whose bytes it holds
    prevBookIdRef,  \* App's prevBookIdRef
    loads,          \* getBookFile promises not yet settled: id -> how many
    \* --- the reader hook (useEpubReader) ---
    bookRef,              \* the handle of the session's book, NoHandle when not mounted
    liveHandles,          \* handles returned by ePub() and not yet destroyed
    handlesMade,          \* how many handles ePub() has returned
    pendingProgressSave,
    progressSaveTimer,
    lastProgressSaveAt,
    effects,              \* the side effects of the latest React commit, in order
    armedTimers,          \* the due times of the setTimeout timers armed and neither
                          \* fired nor cancelled, in the order they were armed
    hookInstance,         \* the mounted instance of the reader component, NoInstance when none
    instancesMade,        \* how many instances were mounted
    isReady,              \* the mounted instance's isReady state
    toc,                  \* the mounted instance's toc state: the handle of the book whose
                          \* nav.toc it holds, NoHandle for []
    currentChapter,       \* the mounted instance's currentChapter state
    thens,                \* the promise callbacks registered and not yet run
    startProgressRef,     \* the baseline progress of the time estimate, NoProgress for null
    startTimeRef,         \* the baseline time of the time estimate
    timeLeftRef,          \* the time estimate, NoEstimate for null
    \* --- durable storage (services/db) as the hook calls it ---
    dbCalls,      \* how many times saveProgressToDB was called
    lastDbCall,   \* the arguments of the latest call
    dbOps,        \* the calls, in call order, each with how far it has got
    durable,      \* the 'books' object store: id -> [cfi, progress]
    \* --- observation of the LocationEvents ---
    nEvents,      \* LocationEvents handled so far
    lastEvent,    \* the latest one
    prevEvent,    \* the one before it
    nCoalesced,   \* LocationEvents that overwrote a pending write
    fastSoFar,    \* every LocationEvent came less than throttleMs after the one before
    steadyFlush,  \* the latest flush made by a LocationEvent or by the timer: when, in
                  \* which reader instance, and when that instance's one before it was
    \* --- content documents and translation requests ---
    docs,         \* injected content documents
    requests,     \* handleDblClick invocations past their guards
    \* --- chapter navigation (goToChapter) ---
    spine,        \* book.spine.items of the open book: the hrefs, in manifest order
    nav,          \* the latest goToChapter call
    navCalls,     \* how many goToChapter calls were made
    shown,        \* the target the render surface displayed last (<<>>: where the book opened)
    \* --- the Translation Cache called on its own ---
    cachePuts,    \* the saveTranslation calls made, in order
    cacheGet,     \* the latest getTranslation call made since the latest of them
    \* --- what the hook shows of the open book ---
    navToc,         \* nav.toc, once book.loaded.navigation has resolved
    chapterLookup,  \* the latest chapter lookup: the href and what findChapter returned
    \* --- the reader's keyboard (useReaderKeyboard) ---
    isNavigatingRef,  \* isNavigatingRef.current of each reader instance
    showToc,          \* the showToc state of each reader instance
    pageTurns,        \* the rendition.next() / prev() promises not yet settled
    turnsMade,        \* how many of them were made
    lastSettled,      \* the latest of them to settle, and how
    keysDropped,      \* the keys handleNavigation returned on without acting
    \* --- the database (services/db) with its two object stores ---
    bookRecords,      \* the 'books' object store: id -> the book's metadata record
    fileRecords,      \* the 'files' object store: the ids that have a file record
    idsMade,          \* the ids generateUUID has given out
    transactions,     \* the transactions created and not yet run, oldest first
    txMade            \* how many transactions were created

clientVars == <<clientCall, callInput, served, safeMessages, wire, answeredAt>>
storeVars == <<currentBook, books, settings, translations>>
appVars == <<bookData, prevBookIdRef, loads>>
hookVars == <<bookRef, liveHandles, handlesMade, pendingProgressSave,
              progressSaveTimer, lastProgressSaveAt, effects, armedTimers,
              hookInstance, instancesMade, isReady, toc, currentChapter, thens,
              startProgressRef, startTimeRef, timeLeftRef>>
dbVars == <<dbCalls, lastDbCall, dbOps, durable>>
eventVars == <<nEvents, lastEvent, prevEvent, nCoalesced, fastSoFar, steadyFlush>>
contentVars == <<docs, requests>>
navVars == <<spine, nav, navCalls, shown>>
cacheVars == <<cachePuts, cacheGet>>
viewVars == <<navToc, chapterLookup>>
pageVars == <<isNavigatingRef, showToc, pageTurns, turnsMade, lastSettled, keysDropped>>
idbVars == <<bookRecords, fileRecords, idsMade, transactions, txMade>>
vars == <<clientVars, now, storeVars, appVars, hookVars, dbVars, eventVars, contentVars,
          navVars, cacheVars, viewVars, pageVars, idbVars>>
otherThanClient == <<now, storeVars, appVars, hookVars, dbVars, eventVars, contentVars,
                     navVars, cacheVars, viewVars, pageVars, idbVars>>

(***************************************************************************)
(* A single chatCompletion call against a backend that answers each fetch  *)
(* with any of Responses.                                                  *)
(***************************************************************************)
\* base URLs a user may configure
ConfigUrls ==
    { <<"https://", "host", "/", "v1">>,
      <<" ", "https://", "host", "/", "v1", "/", " ">>,
      <<"HTTPS://", "host">>,
      <<"https://", "host", "/", "v1", "/", "chat", "/", "completions">>,
      <<"/", "api", "/", "chat", "/", "completions">>,
      <<"/", "api">>,
      <<"host", "/", "v1">>,
      <<"https://", "host", "/", "chat", "/", "completions", "?", "k">>,
      <<"https://", "host", "/", "chat", "/", "completions", "/", "v1">> }

ApiKeys == {"", "sk-key"}

Statuses == {200, 201, 304, 400, 401, 404, 429, 500, 503}

Contents == {"", "T1", "T2"}

Responses ==
    {HttpResponse(st, c) : st \in Statuses, c \in Contents}
        \cup {TransportFailure, UnparsableBody, MissingChoices}

IdleCall ==
    [phase |-> "idle", attempt |-> 0, fetches |-> 0, waits |-> <<>>,
     endpoint |-> <<>>, authorization |-> <<>>, lastError |-> NoError, result |-> ""]

\* TRANSLATION_SYSTEM_PROMPT, cut to its first code units (it has 670 of them)
SystemPrompt == <<20320, 26159, 19968>>

\* the messages translateText hands to chatCompletion
TranslationMessages(text) ==
    << [role |-> "system", content |-> SystemPrompt],
       [role |-> "user", content |-> text] >>

\* createLLMClient(config, apiKey).chatCompletion(messages) up to its first await
ClientCall(apiUrl, apiKey, messages) ==
    LET c == ChatCompletionStart(apiUrl, apiKey)
        safe == IF c.phase = "thrown" THEN <<>> ELSE truncateMessages(messages)
    IN  /\ clientCall.phase = "idle"
        /\ clientCall' = c
        /\ callInput' = [apiUrl |-> apiUrl, apiKey |-> apiKey, messages |-> messages,
                         at |-> now]
        /\ safeMessages' = safe
        /\ wire' = IF c.phase = "fetching" THEN <<FetchRequest(now, c, safe)>> ELSE <<>>
        /\ UNCHANGED <<served, answeredAt>>
        /\ UNCHANGED otherThanClient

\* the awaited fetch settles
ClientResponse(resp) ==
    /\ clientCall.phase = "fetching"
    /\ clientCall' = ChatCompletionOnResponse(clientCall, resp)
    /\ served' = Append(served, resp)
    /\ answeredAt' = Append(answeredAt, now)
    /\ UNCHANGED <<callInput, safeMessages, wire>>
    /\ UNCHANGED otherThanClient

\* when the awaited delay(waitTime) resolves
ClientDelayDue ==
    delayResolvesAt(answeredAt[Len(answeredAt)], clientCall.waits[Len(clientCall.waits)])

\* time passes until the awaited delay is over
AwaitDelay ==
    /\ clientCall.phase = "delay"
    /\ now < ClientDelayDue
    /\ now' = ClientDelayDue
    /\ UNCHANGED <<clientVars, idbVars, pageVars, viewVars, navVars, cacheVars, storeVars, appVars, hookVars, dbVars, eventVars,
                   contentVars>>

\* the awaited delay resolves: the loop goes on with the next fetch
ClientDelayElapsed ==
    LET c == ChatCompletionOnDelay(clientCall)
    IN  /\ clientCall.phase = "delay"
        /\ now >= ClientDelayDue
        /\ clientCall' = c
        /\ wire' = IF c.phase = "fetching"
                   THEN Append(wire, FetchRequest(now, c, safeMessages)) ELSE wire
        /\ UNCHANGED <<callInput, served, safeMessages, answeredAt>>
        /\ UNCHANGED otherThanClient

(***************************************************************************)
(* The store: store/useBookStore                                           *)
(***************************************************************************)
BookIds == {"A", "B"}
NoBook == "none"

\* reading positions the render surface can report: location token and
\* percentage (in hundredths)
Locations ==
    { [cfi |-> "cfi1", percentage |-> 10],
      [cfi |-> "cfi2", percentage |-> 60] }

InitialPosition == [cfi |-> "", progress |-> 0]

\* updateBookProgress of the store: the entry of `id`, if any, gets cfi and progress
StoreUpdateBookProgress(list, id, cfi, progress) ==
    [b \in DOMAIN list |->
        IF b = id THEN [cfi |-> cfi, progress |-> progress] ELSE list[b]]

(***************************************************************************)
(* The reader hook: src/hooks/useEpubReader.ts.  Its refs, the store's     *)
(* book list and the calls it makes are gathered in one record h, and the  *)
(* functions of the hook are transformers of that record; each appends the *)
(* side effects it performs to h.log, in the order the code performs them. *)
(***************************************************************************)
NoHandle == 0
NoTimer == 0 - 1
NoPending == [bookId |-> NoBook, cfi |-> "", percentage |-> 0]

\* a sequence without the first occurrence of x
RemoveOne(s, x) ==
    LET at == {i \in DOMAIN s : s[i] = x}
    IN  IF at = {} THEN s
        ELSE LET k == CHOOSE i \in at : \A j \in at : i <= j
             IN  SubSeq(s, 1, k - 1) \o SubSeq(s, k + 1, Len(s))

\* setTimeout(callback, wait) at time t: a timer due at t + wait is armed
setTimeout(armed, t, wait) == Append(armed, t + wait)

\* clearTimeout(handle): the timer, if still armed, is cancelled
clearTimeout(armed, handle) == RemoveOne(armed, handle)

Effect(op, handle, save) == [op |-> op, handle |-> handle, save |-> save]

NoInstance == 0

\* a callback given to promise.then by the session of `handle`, in the
\* component instance `instance`; kind "toc": setToc(nav.toc), "display":
\* setIsReady(true), "chapter": the chapter lookup of a LocationEvent
Then(kind, handle, instance) == [kind |-> kind, handle |-> handle, instance |-> instance]

\* the label the chapter lookup of a session finds for its location
SessionChapter(handle) == "chapter of book " \o ToString(handle)

HookState ==
    [timer |-> progressSaveTimer, pending |-> pendingProgressSave,
     lastSaveAt |-> lastProgressSaveAt, books |-> books,
     dbCalls |-> dbCalls, lastDbCall |-> lastDbCall, dbOps |-> dbOps,
     bookRef |-> bookRef, live |-> liveHandles, made |-> handlesMade,
     armed |-> armedTimers, instance |-> hookInstance, instances |-> instancesMade,
     ready |-> isReady, toc |-> toc, chapter |-> currentChapter, thens |-> thens,
     startProgress |-> startProgressRef, startTime |-> startTimeRef,
     timeLeft |-> timeLeftRef, log |-> <<>>]

SetHookState(h) ==
    /\ progressSaveTimer' = h.timer
    /\ pendingProgressSave' = h.pending
    /\ lastProgressSaveAt' = h.lastSaveAt
    /\ books' = h.books
    /\ dbCalls' = h.dbCalls
    /\ lastDbCall' = h.lastDbCall
    /\ dbOps' = h.dbOps
    /\ durable' = durable
    /\ bookRef' = h.bookRef
    /\ liveHandles' = h.live
    /\ handlesMade' = h.made
    /\ effects' = h.log
    /\ armedTimers' = h.armed
    /\ hookInstance' = h.instance
    /\ instancesMade' = h.instances
    /\ isReady' = h.ready
    /\ toc' = h.toc
    /\ currentChapter' = h.chapter
    /\ thens' = h.thens
    /\ startProgressRef' = h.startProgress
    /\ startTimeRef' = h.startTime
    /\ timeLeftRef' = h.timeLeft

\* the refs of a hook instance that has just been mounted (useRef initial values)
MountedRefs(h) ==
    [h EXCEPT !.timer = NoTimer, !.pending = NoPending, !.lastSaveAt = 0,
              !.bookRef = NoHandle]

\* updateBookProgress of services/db, called and not awaited: it stands before
\* its db.get; `read` is the record db.get gave it, `ticket` the position of its
\* db.put among the read-write transactions on the store (0: none created yet)
saveProgressToDB(id, cfi, progress) ==
    [bookId |-> id, cfi |-> cfi, progress |-> progress, phase |-> "get",
     read |-> InitialPosition, ticket |-> 0]

\* the pending slot is written and not emptied
flushProgressSaveKeepsPending(h, t) ==
    IF h.pending = NoPending THEN h
    ELSE [h EXCEPT
            !.lastSaveAt = t,
            !.books = StoreUpdateBookProgress(h.books, h.pending.bookId,
                                              h.pending.cfi, h.pending.percentage),
            !.dbCalls = @ + 1,
            !.lastDbCall = h.pending,
            !.dbOps = Append(@, saveProgressToDB(h.pending.bookId, h.pending.cfi,
                                                 h.pending.percentage)),
            !.log = Append(@, Effect("flush", h.bookRef, h.pending))]

\* flushProgressSave, at time t
flushProgressSave(h, t) ==
    IF h.pending = NoPending THEN h
    ELSE [h EXCEPT
            !.pending = NoPending,
            !.lastSaveAt = t,
            !.books = StoreUpdateBookProgress(h.books, h.pending.bookId,
                                              h.pending.cfi, h.pending.percentage),
            !.dbCalls = @ + 1,
            !.lastDbCall = h.pending,
            !.dbOps = Append(@, saveProgressToDB(h.pending.bookId, h.pending.cfi,
                                                 h.pending.percentage)),
            !.log = Append(@, Effect("flush", h.bookRef, h.pending))]

\* the pending slot is not overwritten while a timer is armed
scheduleProgressSaveKeepFirst(h, bookId, cfi, percentage, t) ==
    LET h1 == [h EXCEPT !.pending =
                   [bookId |-> bookId, cfi |-> cfi, percentage |-> percentage]]
        elapsed == t - h.lastSaveAt
        wait == IF throttleMs - elapsed > 0 THEN throttleMs - elapsed ELSE 0
    IN  IF elapsed >= throttleMs /\ h.timer = NoTimer
        THEN flushProgressSave(h1, t)
        ELSE IF h.timer = NoTimer
        THEN [h1 EXCEPT !.timer = t + wait,
                        !.armed = setTimeout(@, t, wait),
                        !.log = Append(@, Effect("setTimeout", h.bookRef, NoPending))]
        ELSE h

\* every event is flushed at once when no timer is armed
scheduleProgressSaveNoThrottle(h, bookId, cfi, percentage, t) ==
    LET h1 == [h EXCEPT !.pending =
                   [bookId |-> bookId, cfi |-> cfi, percentage |-> percentage]]
    IN  IF h.timer = NoTimer THEN flushProgressSave(h1, t) ELSE h1

\* a timer is armed whether or not one is armed already
scheduleProgressSaveRearms(h, bookId, cfi, percentage, t) ==
    LET h1 == [h EXCEPT !.pending =
                   [bookId |-> bookId, cfi |-> cfi, percentage |-> percentage]]
        elapsed == t - h.lastSaveAt
        wait == IF throttleMs - elapsed > 0 THEN throttleMs - elapsed ELSE 0
    IN  IF elapsed >= throttleMs /\ h.timer = NoTimer
        THEN flushProgressSave(h1, t)
        ELSE [h1 EXCEPT !.timer = t + wait,
                        !.armed = setTimeout(@, t, wait),
                        !.log = Append(@, Effect("setTimeout", h.bookRef, NoPending))]

\* scheduleProgressSave(bookId, cfi, percentage), at time t
scheduleProgressSave(h, bookId, cfi, percentage, t) ==
    LET h1 == [h EXCEPT !.pending =
                   [bookId |-> bookId, cfi |-> cfi, percentage |-> percentage]]
        elapsed == t - h.lastSaveAt
        wait == IF throttleMs - elapsed > 0 THEN throttleMs - elapsed ELSE 0
    IN  IF elapsed >= throttleMs /\ h.timer = NoTimer
        THEN flushProgressSave(h1, t)
        ELSE IF h.timer = NoTimer
        THEN [h1 EXCEPT !.timer = t + wait,
                        !.armed = setTimeout(@, t, wait),
                        !.log = Append(@, Effect("setTimeout", h.bookRef, NoPending))]
        ELSE h1

\* the event loop takes the armed timer due at `due` to run its callback
timerFired(h, due) == [h EXCEPT !.armed = RemoveOne(@, due)]

\* the callback clears the timer handle and writes nothing
progressTimerCallbackNoFlush(h, t) == [h EXCEPT !.timer = NoTimer]

\* the callback given to setTimeout in scheduleProgressSave, at time t
progressTimerCallback(h, t) ==
    flushProgressSave([h EXCEPT !.timer = NoTimer], t)

\* if (progressSaveTimer.current) { clearTimeout(...); progressSaveTimer.current = null }
clearProgressTimer(h) ==
    IF h.timer # NoTimer
    THEN [h EXCEPT !.timer = NoTimer,
                   !.armed = clearTimeout(@, h.timer),
                   !.log = Append(@, Effect("clearTimeout", h.bookRef, NoPending))]
    ELSE h

\* window.removeEventListener('resize', handleResize)
removeResizeListener(h) ==
    [h EXCEPT !.log = Append(@, Effect("removeListener", h.bookRef, NoPending))]

\* book.destroy()
destroyBook(h) ==
    [h EXCEPT !.live = @ \ {h.bookRef},
              !.log = Append(@, Effect("destroy", h.bookRef, NoPending))]

\* the book is destroyed before the pending write is flushed
effectCleanupDestroyFirst(h, t) ==
    flushProgressSave(removeResizeListener(destroyBook(clearProgressTimer(h))), t)

\* the cleanup the init effect returns, at time t
effectCleanup(h, t) ==
    destroyBook(removeResizeListener(flushProgressSave(clearProgressTimer(h), t)))

\* startProgressRef.current === null
NoProgress == 0 - 1
\* timeLeftRef.current === null
NoEstimate == "(null)"

\* the integer not below a / b, for b > 0
CeilDiv(a, b) == IF a % b = 0 THEN a \div b ELSE (a \div b) + 1

\* remainingMinutes and the text made of it: progress is in percent and time
\* in milliseconds, so remainingMinutes = (spentMs / 60000) / (made / 100) *
\* (1 - percentage / 100) = spentMs * (100 - percentage) / (60000 * made)
timeLeftText(spentMs, made, percentage) ==
    LET num == spentMs * (100 - percentage)
        den == 60000 * made
    IN  IF num < den THEN "< 1 min left"
        ELSE IF num > 600 * den THEN "> 10 hrs left"
        ELSE ToString(CeilDiv(num, den)) \o " min left"

\* any progress at all counts
estimateDueAnyProgress(made, spentMs) == made > 0 /\ spentMs > 6000

\* progressMade > 0.01 && timeSpentMinutes > 0.1
estimateDue(made, spentMs) == made > 1 /\ spentMs > 6000

\* the time estimate of the relocated handler, for a LocationEvent at
\* `percentage` at time t
estimateTimeLeft(h, percentage, t) ==
    IF h.startProgress = NoProgress
    THEN [h EXCEPT !.startProgress = percentage, !.startTime = t]
    ELSE IF estimateDue(percentage - h.startProgress, t - h.startTime)
    THEN [h EXCEPT !.timeLeft = timeLeftText(t - h.startTime, percentage - h.startProgress,
                                             percentage)]
    ELSE h

\* the first statements of the init effect, at time t
resetEstimate(h, t) ==
    [h EXCEPT !.startTime = t, !.startProgress = NoProgress, !.timeLeft = NoEstimate]

\* the init effect up to the registration of its handlers: ePub(bookData),
\* book.renderTo(...)
effectInit(h) ==
    LET handle == h.made + 1 IN
    [h EXCEPT !.made = handle, !.live = @ \cup {handle}, !.bookRef = handle,
              !.thens = @ \cup {Then("toc", handle, h.instance),
                                Then("display", handle, h.instance)},
              !.log = @ \o <<Effect("ePub", handle, NoPending),
                             Effect("renderTo", handle, NoPending)>>]

(***************************************************************************)
(* hashText of the store.  The running hash is a 32-bit integer; it is     *)
(* kept as two 16-bit halves <<hi, lo>> so that the wrap-around of         *)
(* ((hash << 5) - hash) + char, which is 31 * hash + char modulo 2^32, is  *)
(* computed exactly.                                                       *)
(***************************************************************************)
Half == 65536

HashStep(h, char) ==
    LET lo == 31 * h[2] + char
        hi == 31 * h[1] + (lo \div Half)
    IN  <<hi % Half, lo % Half>>

RECURSIVE HashFold(_, _)
HashFold(h, text) ==
    IF text = <<>> THEN h ELSE HashFold(HashStep(h, Head(text)), Tail(text))

\* the signed 32-bit value of <<hi, lo>> (hash & hash)
ToInt32(h) == IF h[1] >= Half \div 2 THEN (h[1] - Half) * Half + h[2] ELSE h[1] * Half + h[2]

Digits36 ==
    <<"0", "1", "2", "3", "4", "5", "6", "7", "8", "9", "a", "b", "c", "d", "e", "f",
      "g", "h", "i", "j", "k", "l", "m", "n", "o", "p", "q", "r", "s", "t", "u", "v",
      "w", "x", "y", "z">>

RECURSIVE Base36(_)
Base36(n) ==
    IF n < 36 THEN <<Digits36[n + 1]>>
    ELSE Append(Base36(n \div 36), Digits36[(n % 36) + 1])

\* Number.prototype.toString(36) of a 32-bit integer; the magnitude of
\* -2^31 is taken in two steps because it is not a 32-bit integer itself
ToString36(n) ==
    IF n >= 0 THEN Base36(n)
    ELSE IF n = (0 - 2147483647) - 1
    THEN <<"-">> \o Base36(2147483647 \div 36) \o <<Digits36[((2147483647 % 36) + 1) + 1]>>
    ELSE <<"-">> \o Base36(0 - n)

hashText(text) == ToString36(ToInt32(HashFold(<<0, 0>>, text)))

(***************************************************************************)
(* Content documents and the translation handler (the content hook of      *)
(* useEpubReader.ts, lines 135-285).                                       *)
(***************************************************************************)
\* paragraph texts, as UTF-16 code units
TextHello == <<72, 101, 108, 108, 111>>
TextWorld == <<87, 111, 114, 108, 100>>
TextHi == <<72, 105>>

\* the paragraphs of the chapter a book's bytes render to
ChapterOf(bytes) ==
    IF bytes = "A" THEN <<TextHello, TextHi>> ELSE <<TextWorld, TextHello>>

\* DEFAULT_CONFIG.apiUrl when the environment sets none
DefaultApiUrl == <<"/", "api", "/", "chat", "/", "completions">>

AbsoluteApiUrl == <<"https://", "host", "/", "v1">>

DefaultSettings == [translationEnabled |-> FALSE, apiUrl |-> <<>>, apiKey |-> ""]

\* what the settings panel is made to store: the defaults, translation switched
\* on with the proxy (no URL, no key), or with an absolute URL and no key
SettingsChoices ==
    { DefaultSettings,
      [translationEnabled |-> TRUE, apiUrl |-> <<>>, apiKey |-> ""],
      [translationEnabled |-> TRUE, apiUrl |-> AbsoluteApiUrl, apiKey |-> ""] }

\* what the backend answers to a translation request
TranslateResponses ==
    { HttpResponse(200, "T1"), HttpResponse(200, ""), HttpResponse(400, ""),
      HttpResponse(500, "") }

\* the store's getTranslation; "" stands for undefined
getTranslation(cache, bookId, textHash) ==
    IF <<bookId, textHash>> \in DOMAIN cache THEN cache[<<bookId, textHash>>] ELSE ""

\* the book's other entries are not carried over
saveTranslationDropsBook(cache, bookId, textHash, translation) ==
    [k \in {j \in DOMAIN cache : j[1] # bookId} \cup {<<bookId, textHash>>} |->
        IF k = <<bookId, textHash>> THEN translation ELSE cache[k]]

\* an entry that exists is not overwritten
saveTranslationKeepFirst(cache, bookId, textHash, translation) ==
    [k \in DOMAIN cache \cup {<<bookId, textHash>>} |->
        IF k \in DOMAIN cache THEN cache[k] ELSE translation]

\* the store's saveTranslation
saveTranslation(cache, bookId, textHash, translation) ==
    [k \in DOMAIN cache \cup {<<bookId, textHash>>} |->
        IF k = <<bookId, textHash>> THEN translation ELSE cache[k]]

Block(text) == Message(text, NoStatus)

\* the hook does not look into the cache at injection
InjectParagraphNoRestore(cache, bookId, text) ==
    [text |-> text, attr |-> "none", blocks |-> <<>>, listener |-> Len(text) >= 5]

\* a <p> of a content document as the hook leaves it at injection:
\* attr is its data-translated attribute ("none" when absent), blocks the
\* translation-block children, listener whether handleDblClick is registered
InjectParagraph(cache, bookId, text) ==
    IF Len(text) < 5
    THEN [text |-> text, attr |-> "none", blocks |-> <<>>, listener |-> FALSE]
    ELSE LET cached == IF bookId # NoBook
                       THEN getTranslation(cache, bookId, hashText(text)) ELSE ""
         IN  IF cached # ""
             THEN [text |-> text, attr |-> "true", blocks |-> <<Block(cached)>>,
                   listener |-> TRUE]
             ELSE [text |-> text, attr |-> "none", blocks |-> <<>>, listener |-> TRUE]

\* the content hook, for the document of a chapter of `bytes`: keydown and
\* mouseup tell whether handleIframeKeydown and handleSelectionMouseup are
\* registered on the document
InjectDocument(cache, bookId, handle, bytes) ==
    [handle |-> handle, bookId |-> bookId, loaded |-> TRUE,
     keydown |-> TRUE, mouseup |-> TRUE,
     paras |-> [i \in DOMAIN ChapterOf(bytes) |->
                   InjectParagraph(cache, bookId, ChapterOf(bytes)[i])]]

\* the document's own two handlers are left registered
cleanupHandlersParagraphsOnly(doc) ==
    [doc EXCEPT !.loaded = FALSE,
                !.paras = [i \in DOMAIN doc.paras |-> [doc.paras[i] EXCEPT !.listener = FALSE]]]

\* cleanup: every registered handler is removed
cleanupHandlers(doc) ==
    [doc EXCEPT !.loaded = FALSE,
                !.keydown = FALSE, !.mouseup = FALSE,
                !.paras = [i \in DOMAIN doc.paras |-> [doc.paras[i] EXCEPT !.listener = FALSE]]]

\* book.destroy() unloads the documents the session still shows
UnloadDocsOf(ds, handle) ==
    [d \in DOMAIN ds |->
        IF ds[d].handle = handle /\ ds[d].loaded THEN cleanupHandlers(ds[d]) ELSE ds[d]]

\* translateText of src/services/llm.ts up to the first await of the client
translateTextStart(apiUrl, apiKey) ==
    ChatCompletionStart(IF apiUrl = <<>> THEN DefaultApiUrl ELSE apiUrl, apiKey)

\* the catch branch marks the paragraph translated
applyTranslationResultMarksFailed(para, block, c) ==
    IF c.phase = "returned"
    THEN [para EXCEPT !.blocks[block] = Block(c.result), !.attr = "true"]
    ELSE [para EXCEPT !.blocks[block] = convertError(c.lastError).message, !.attr = "true"]

\* handleDblClick after the awaited translateText has settled with `c`,
\* applied to the paragraph: the try branch or the catch branch
applyTranslationResult(para, block, c) ==
    IF c.phase = "returned"
    THEN [para EXCEPT !.blocks[block] = Block(c.result), !.attr = "true"]
    ELSE LET err == convertError(c.lastError)
             errorMessage == IF err.name = "TranslationError" THEN err.message
                             ELSE Message("Translation failed", NoStatus)
         IN  [para EXCEPT !.blocks[block] = errorMessage, !.attr = "none"]

\* the cache is written in the catch branch too
cacheAfterTranslationAlways(cache, bookId, textHash, c) ==
    IF bookId # NoBook
    THEN saveTranslation(cache, bookId, textHash,
                         IF c.phase = "returned" THEN c.result ELSE "Translation failed")
    ELSE cache

\* ... and applied to the cache
cacheAfterTranslation(cache, bookId, textHash, c) ==
    IF c.phase = "returned" /\ bookId # NoBook
    THEN saveTranslation(cache, bookId, textHash, c.result)
    ELSE cache

Settled(c) == c.phase \in {"returned", "thrown"}

\* no getTranslation call observed
NoGet == [bookId |-> NoBook, text |-> <<>>, value |-> ""]

(***************************************************************************)
(* Chapter navigation: goToChapter of src/hooks/useEpubReader.ts.  An href  *)
(* is a sequence of characters.  rendition.display is the render surface's *)
(* own: it resolves or rejects, and only a display that resolves moves the  *)
(* reader.                                                                 *)
(***************************************************************************)
\* href.split('#')[0]
SplitHash(href) ==
    LET hashes == {k \in DOMAIN href : href[k] = "#"}
    IN  IF hashes = {} THEN href
        ELSE SubSeq(href, 1, (CHOOSE k \in hashes : \A j \in hashes : k <= j) - 1)

\* the condition of the spine scan on item.href
spineItemMatches(item, href) ==
    /\ item # <<>>
    /\ \/ item = href
       \/ item = SplitHash(href)
       \/ EndsWith(item, href)
       \/ EndsWith(item, SplitHash(href))
       \/ EndsWith(href, item)

NoNavigation ==
    [phase |-> "idle", href |-> <<>>, tried |-> <<>>, scanned |-> FALSE,
     thrown |-> FALSE, log |-> <<>>, shownBefore |-> <<>>]

\* one rendition.display(target) of strategy `step`, not settled yet
DisplayAttempt(step, target) == [step |-> step, target |-> target, outcome |-> "pending"]

\* await rendition.display(target) is reached
issueDisplay(n, step, target) ==
    [n EXCEPT !.phase = "display", !.tried = Append(@, DisplayAttempt(step, target))]

\* the last catch rethrows
navigationFailedThrows(n) ==
    [n EXCEPT !.phase = "failed", !.thrown = TRUE]

\* console.error('All navigation strategies failed for:', href)
navigationFailed(n) ==
    [n EXCEPT !.phase = "failed", !.log = Append(@, "error")]

\* the third strategy: the for loop over spine.items
scanSpine(n, items) ==
    LET matching == {k \in DOMAIN items : spineItemMatches(items[k], n.href)}
        first == CHOOSE k \in matching : \A j \in matching : k <= j
        n1 == [n EXCEPT !.scanned = TRUE]
    IN  IF matching = {} THEN navigationFailed(n1)
        ELSE issueDisplay(n1, 3, items[first])

\* tryDisplay past the latest attempt: the next strategy, if any
nextStrategy(n, items) ==
    LET k == Len(n.tried)
    IN  IF n.tried[k].step = 1
        THEN IF SplitHash(n.href) # n.href
             THEN issueDisplay(n, 2, SplitHash(n.href))
             ELSE scanSpine(n, items)
        ELSE IF n.tried[k].step = 2
        THEN scanSpine(n, items)
        ELSE navigationFailed(n)

\* tryDisplay after the awaited display of the latest attempt rejected: the
\* catch logs a warning and the function goes on
afterRejection(n, items) ==
    nextStrategy([n EXCEPT !.tried[Len(n.tried)].outcome = "rejected",
                           !.log = Append(@, "warn")], items)

\* tryDisplay does not return after a display that resolved
tryDisplayOnSettleNoStop(n, ok, items) ==
    IF ok
    THEN nextStrategy([n EXCEPT !.tried[Len(n.tried)].outcome = "resolved"], items)
    ELSE afterRejection(n, items)

\* tryDisplay after the awaited display of the latest attempt settled
tryDisplayOnSettle(n, ok, items) ==
    IF ok
    THEN [n EXCEPT !.phase = "done", !.tried[Len(n.tried)].outcome = "resolved"]
    ELSE afterRejection(n, items)

\* goToChapter(href) up to the first await
goToChapterStart(href, at) ==
    issueDisplay([NoNavigation EXCEPT !.href = href, !.shownBefore = at], 1, href)

(***************************************************************************)
(* The chapter lookup of the relocated handler.  A table-of-contents entry *)
(* is a record [href, label, subitems]; hrefs are sequences of characters, *)
(* labels are strings.                                                     *)
(***************************************************************************)
\* findChapter's `return null`
NoChapter == "(null)"
\* nav.toc before book.loaded.navigation has resolved
NoToc == <<>>
\* no lookup made
NoLookup == [href |-> <<>>, result |-> NoChapter, made |-> FALSE]

\* item.href && currentHref?.includes(item.href), the fragment left in
chapterItemMatchesWholeHref(item, currentHref) ==
    /\ item.href # <<>>
    /\ Includes(currentHref, item.href)

\* item.href && currentHref?.includes(item.href.split('#')[0])
chapterItemMatches(item, currentHref) ==
    /\ item.href # <<>>
    /\ Includes(currentHref, SplitHash(item.href))

\* a value `if (found)` and `if (chapter)` take for true
Truthy(label) == label # NoChapter /\ label # ""

\* findChapter(items), the loop from its i-th item on
RECURSIVE findChapterFrom(_, _, _)
findChapterFrom(items, i, currentHref) ==
    IF i > Len(items) THEN NoChapter
    ELSE IF chapterItemMatches(items[i], currentHref) THEN items[i].label
    ELSE LET found == findChapterFrom(items[i].subitems, 1, currentHref)
         IN  IF Truthy(found) THEN found
             ELSE findChapterFrom(items, i + 1, currentHref)

findChapter(items, currentHref) == findChapterFrom(items, 1, currentHref)

\* the hrefs a table-of-contents entry can have: none, a document, a place
\* in a document
TocHrefs == { <<>>, <<"c", "1">>, <<"c", "1", "#", "s">>, <<"c", "2">> }

TocEntry(href, label, subitems) == [href |-> href, label |-> label, subitems |-> subitems]

\* the tables of contents a book can have: a part with two chapters under
\* it, and a chapter after it; any entry can lack its label
TocChoices ==
    { << TocEntry(h1, l1, << TocEntry(h2, l2, <<>>), TocEntry(h3, l3, <<>>) >>),
         TocEntry(h4, l4, <<>>) >> :
        h1 \in TocHrefs, h2 \in TocHrefs, h3 \in TocHrefs, h4 \in TocHrefs,
        l1 \in {"", "Part"}, l2 \in {"", "One"}, l3 \in {"", "Two"}, l4 \in {"", "Three"} }

\* location.start.href of a LocationEvent
LocationHrefs == { <<"c", "1">>, <<"o", "/", "c", "1">>, <<"c", "2">>, <<"c", "3">> }

(***************************************************************************)
(* Page turns: handleNavigation of hooks/useReaderKeyboard.                *)
(***************************************************************************)
\* no page turn has settled
NoTurn == [id |-> 0, ok |-> TRUE]

\* the keys the keydown listener passes to handleNavigation
NavigationKeys == {"ArrowRight", " ", "ArrowLeft", "Escape"}

\* only an open table of contents makes handleNavigation return
navigationKeyDroppedTocOnly(tocShown, navigating) == tocShown

\* if (showToc) return; ... if (isNavigatingRef.current) return;
navigationKeyDropped(tocShown, navigating) == tocShown \/ navigating

\* the request a key makes: rendition.next() or rendition.prev()
PageTurn(id, key, handle, instance) ==
    [id |-> id, dir |-> IF key = "ArrowLeft" THEN "prev" ELSE "next",
     handle |-> handle, instance |-> instance]

(***************************************************************************)
(* Initial state: the application has started, the library holds two       *)
(* books, none is open.                                                    *)
(***************************************************************************)
InitialClock == 2 * throttleMs

NoFlushTime == 0 - 1

NoFlush == [at |-> NoFlushTime, before |-> NoFlushTime, instance |-> NoInstance]

\* the record of the latest flush after a handler that flushed, or did not,
\* at time t in the reader instance `instance`
FlushObserved(latest, flushed, t, instance) ==
    IF ~flushed THEN latest
    ELSE [at |-> t, instance |-> instance,
          before |-> IF latest.instance = instance THEN latest.at ELSE NoFlushTime]

NoEvent ==
    [bookId |-> NoBook, cfi |-> "", percentage |-> 0, at |-> 0, callsBefore |-> 0,
     flushAt |-> 0, handle |-> NoHandle, coalesced |-> FALSE]

InitOutsideSpine ==
    /\ clientCall = IdleCall
    /\ callInput = [apiUrl |-> <<>>, apiKey |-> "", messages |-> <<>>, at |-> 0]
    /\ served = <<>>
    /\ safeMessages = <<>>
    /\ wire = <<>>
    /\ answeredAt = <<>>
    /\ now = InitialClock
    /\ currentBook = NoBook
    /\ books = [b \in BookIds |-> InitialPosition]
    /\ settings = DefaultSettings
    /\ translations = [k \in {} |-> ""]
    /\ bookData = NoBook
    /\ prevBookIdRef = NoBook
    /\ loads = [b \in BookIds |-> 0]
    /\ bookRef = NoHandle
    /\ liveHandles = {}
    /\ handlesMade = 0
    /\ pendingProgressSave = NoPending
    /\ progressSaveTimer = NoTimer
    /\ lastProgressSaveAt = 0
    /\ effects = <<>>
    /\ armedTimers = <<>>
    /\ hookInstance = NoInstance
    /\ instancesMade = 0
    /\ isReady = FALSE
    /\ toc = NoHandle
    /\ thens = {}
    /\ startProgressRef = NoProgress
    /\ startTimeRef = 0
    /\ timeLeftRef = NoEstimate
    /\ dbCalls = 0
    /\ lastDbCall = NoPending
    /\ dbOps = <<>>
    /\ durable = [b \in BookIds |-> InitialPosition]
    /\ nEvents = 0
    /\ lastEvent = NoEvent
    /\ prevEvent = NoEvent
    /\ nCoalesced = 0
    /\ fastSoFar = TRUE
    /\ steadyFlush = NoFlush
    /\ docs = <<>>
    /\ requests = <<>>
    /\ nav = NoNavigation
    /\ navCalls = 0
    /\ shown = <<>>
    /\ cachePuts = <<>>
    /\ cacheGet = NoGet
    /\ navToc = NoToc
    /\ chapterLookup = NoLookup
    /\ isNavigatingRef = [i \in 1..MaxHandles |-> FALSE]
    /\ showToc = [i \in 1..MaxHandles |-> FALSE]
    /\ pageTurns = {}
    /\ turnsMade = 0
    /\ lastSettled = NoTurn
    /\ keysDropped = 0
    /\ bookRecords = [b \in BookIds |-> InitialPosition]
    /\ fileRecords = BookIds
    /\ idsMade = BookIds
    /\ transactions = <<>>
    /\ txMade = 0
    /\ currentChapter = ""

\* the hrefs a spine entry can have
SpineItems == { <<"a">>, <<"d", "/", "a">>, <<"b">>, <<"o", "/", "d", "/", "a">> }

\* the spines a book can have
SpineChoices ==
    UNION { [1..len -> SpineItems] : len \in 0..MaxSpine }

Init ==
    /\ InitOutsideSpine
    /\ spine = <<<<"a">>, <<"b">>>>

\* the library's book has any of the spines
InitNavigate ==
    /\ InitOutsideSpine
    /\ spine \in SpineChoices

(***************************************************************************)
(* The application shell: src/App.tsx.  The reader (and with it the hook)  *)
(* is rendered exactly when bookData and currentBook are both set.         *)
(***************************************************************************)
ReaderShown == bookData # NoBook /\ currentBook # NoBook

\* the effect of lines 51-57, run at unmount: the timer is cancelled, the ref kept
unmountCleanup(h) ==
    IF h.timer # NoTimer
    THEN [h EXCEPT !.armed = clearTimeout(@, h.timer),
                   !.log = Append(@, Effect("clearTimeout", h.bookRef, NoPending))]
    ELSE h

\* the callback p runs: a state setter of an instance that is no longer
\* mounted changes nothing
runThen(h, p) ==
    LET h1 == [h EXCEPT !.thens = @ \ {p}] IN
    IF p.instance # h.instance THEN h1
    ELSE IF p.kind = "toc" THEN [h1 EXCEPT !.toc = p.handle]
    ELSE IF p.kind = "display" THEN [h1 EXCEPT !.ready = TRUE]
    ELSE [h1 EXCEPT !.chapter = SessionChapter(p.handle)]

\* book.loaded.navigation of the book of `handle` resolves: the callbacks
\* given to its then run in the order they were given, setToc first
navigationResolved(h, handle, instance) ==
    LET h1 == runThen(h, Then("toc", handle, instance))
    IN  IF Then("chapter", handle, instance) \in h1.thens
        THEN runThen(h1, Then("chapter", handle, instance))
        ELSE h1

\* the state of a component instance that has just been mounted (useState
\* initial values)
MountedState(h) ==
    [h EXCEPT !.instance = h.instances + 1, !.instances = @ + 1,
              !.ready = FALSE, !.toc = NoHandle, !.chapter = ""]

\* the component instance is gone, and its state with it
UnmountedState(h) ==
    [h EXCEPT !.instance = NoInstance, !.ready = FALSE, !.toc = NoHandle, !.chapter = ""]

\* the hook is unmounted: both cleanups run, in the order the effects are declared
unmountHook(h, t) ==
    UnmountedState(MountedRefs(effectCleanup(unmountCleanup(h), t)))

\* the hook is unmounted and the init effect's cleanup is called a second time
\* right after its first run
unmountHookTwice(h, t) ==
    UnmountedState(MountedRefs(effectCleanup(effectCleanup(unmountCleanup(h), t), t)))

\* the hook is mounted: fresh refs, then the init effect
mountHook(h) == effectInit(MountedState(MountedRefs(h)))

\* the new run without the cleanup of the old one
rerunInitEffectNoCleanup(h, t) == effectInit(h)

\* bookData changed under a mounted hook: the cleanup of the old run, then the new run
rerunInitEffect(h, t) == effectInit(effectCleanup(h, t))

\* Library: onClick={() => setCurrentBook(book)}, then App's loadBook effect
SelectBook(b) ==
    /\ ~ReaderShown
    /\ b \in DOMAIN books
    /\ currentBook' = b
    /\ IF b = prevBookIdRef
       THEN UNCHANGED <<prevBookIdRef, loads>>
       ELSE /\ loads[b] < MaxLoads
            /\ prevBookIdRef' = b
            /\ loads' = [loads EXCEPT ![b] = @ + 1]
    /\ IF bookData # NoBook
       THEN /\ handlesMade < MaxHandles
            /\ SetHookState(resetEstimate(mountHook(HookState), now))
       ELSE UNCHANGED <<hookVars, dbVars, books>>
    /\ UNCHANGED <<clientVars, idbVars, pageVars, viewVars, navVars, cacheVars, now, settings, translations, bookData, eventVars, contentVars>>

\* onClose: setCurrentBook(null); the reader unmounts, then App's effect clears bookData
CloseBook ==
    /\ ReaderShown
    /\ currentBook' = NoBook
    /\ SetHookState(unmountHook(HookState, now))
    /\ docs' = UnloadDocsOf(docs, bookRef)
    /\ prevBookIdRef' = NoBook
    /\ bookData' = NoBook
    /\ UNCHANGED <<clientVars, idbVars, pageVars, viewVars, navVars, cacheVars, now, settings, translations, loads, eventVars, requests>>

\* onClose, with the session teardown run twice
CloseBookTwice ==
    /\ ReaderShown
    /\ currentBook' = NoBook
    /\ SetHookState(unmountHookTwice(HookState, now))
    /\ docs' = UnloadDocsOf(docs, bookRef)
    /\ prevBookIdRef' = NoBook
    /\ bookData' = NoBook
    /\ UNCHANGED <<clientVars, idbVars, pageVars, viewVars, navVars, cacheVars, now, settings, translations, loads, eventVars,
                   requests>>

\* getBookFile(id) resolves: if (data) setBookData(data)
LoadComplete(b) ==
    /\ loads[b] > 0
    /\ loads' = [loads EXCEPT ![b] = @ - 1]
    /\ bookData' = b
    /\ IF ReaderShown
       THEN /\ handlesMade < MaxHandles
            /\ SetHookState(resetEstimate(rerunInitEffect(HookState, now), now))
            /\ docs' = UnloadDocsOf(docs, bookRef)
       ELSE IF currentBook # NoBook
       THEN /\ handlesMade < MaxHandles
            /\ SetHookState(resetEstimate(mountHook(HookState), now))
            /\ UNCHANGED docs
       ELSE UNCHANGED <<hookVars, dbVars, books, docs>>
    /\ UNCHANGED <<clientVars, idbVars, pageVars, viewVars, navVars, cacheVars, now, currentBook, settings, translations, prevBookIdRef,
                   eventVars, requests>>

(***************************************************************************)
(* Time, the render surface's LocationEvents and the throttle timer.       *)
(***************************************************************************)
TickSteps == {200, 1300}

Tick(d) ==
    /\ now + d <= MaxClock
    /\ now' = now + d
    /\ UNCHANGED <<clientVars, idbVars, pageVars, viewVars, navVars, cacheVars, storeVars, appVars, hookVars, dbVars, eventVars, contentVars>>

\* book.loaded.navigation.then(...) in the relocated handler: the lookup is
\* left for the time the navigation resolves, or, the navigation resolved,
\* runs when the handler has returned
chapterLookupThen(h) ==
    IF \E p \in h.thens : p.kind = "toc" /\ p.handle = h.bookRef
    THEN [h EXCEPT !.thens = @ \cup {Then("chapter", h.bookRef, h.instance)}]
    ELSE [h EXCEPT !.chapter = SessionChapter(h.bookRef)]

\* rendition.on('relocated', ...): the chapter lookup, the time estimate and
\* the progress write
LocationEvent(loc) ==
    /\ bookRef # NoHandle
    /\ nEvents < MaxEvents
    /\ IF currentBook # NoBook
       THEN SetHookState(scheduleProgressSave(
                             estimateTimeLeft(chapterLookupThen(HookState), loc.percentage, now),
                             currentBook, loc.cfi, loc.percentage, now))
       ELSE SetHookState(estimateTimeLeft(chapterLookupThen(HookState), loc.percentage, now))
    /\ nEvents' = nEvents + 1
    /\ prevEvent' = lastEvent
    /\ lastEvent' = [bookId |-> currentBook, cfi |-> loc.cfi, percentage |-> loc.percentage,
                     at |-> now, callsBefore |-> dbCalls, flushAt |-> lastProgressSaveAt,
                     handle |-> bookRef, coalesced |-> pendingProgressSave # NoPending]
    /\ nCoalesced' = IF pendingProgressSave # NoPending THEN nCoalesced + 1 ELSE nCoalesced
    /\ fastSoFar' = (fastSoFar /\ (nEvents > 0 => now - lastEvent.at < throttleMs))
    /\ steadyFlush' = FlushObserved(steadyFlush, dbCalls' # dbCalls, now, hookInstance)
    /\ UNCHANGED <<clientVars, idbVars, pageVars, viewVars, navVars, cacheVars, now, currentBook, settings, translations, appVars, contentVars>>

\* time passes until the armed timer is due
AwaitTimer ==
    /\ progressSaveTimer # NoTimer
    /\ now < progressSaveTimer
    /\ now' = progressSaveTimer
    /\ UNCHANGED <<clientVars, idbVars, pageVars, viewVars, navVars, cacheVars, storeVars, appVars, hookVars, dbVars, eventVars, contentVars>>

\* the timer armed by scheduleProgressSave fires (never early)
TimerFire ==
    /\ \E k \in DOMAIN armedTimers :
          /\ now >= armedTimers[k]
          /\ SetHookState(progressTimerCallback(timerFired(HookState, armedTimers[k]), now))
    /\ steadyFlush' = FlushObserved(steadyFlush, dbCalls' # dbCalls, now, hookInstance)
    /\ UNCHANGED <<clientVars, idbVars, pageVars, viewVars, navVars, cacheVars, now, currentBook, settings, translations, appVars,
                   nEvents, lastEvent, prevEvent, nCoalesced, fastSoFar, contentVars>>

(***************************************************************************)
(* Content documents, settings and translation requests.                   *)
(***************************************************************************)
\* rendition.hooks.content: a chapter document has been rendered
DocInject ==
    /\ bookRef # NoHandle
    /\ Len(docs) < MaxDocs
    /\ docs' = Append(docs, InjectDocument(translations, currentBook, bookRef, bookData))
    /\ UNCHANGED <<clientVars, idbVars, pageVars, viewVars, navVars, cacheVars, now, storeVars, appVars, hookVars, dbVars, eventVars, requests>>

\* the document's 'unload' event (a chapter transition)
DocUnload(d) ==
    /\ docs[d].loaded
    /\ docs' = [docs EXCEPT ![d] = cleanupHandlers(@)]
    /\ UNCHANGED <<clientVars, idbVars, pageVars, viewVars, navVars, cacheVars, now, storeVars, appVars, hookVars, dbVars, eventVars, requests>>

\* the settings panel: updateSettings
UpdateSettings(s) ==
    /\ s # settings
    /\ settings' = s
    /\ UNCHANGED <<clientVars, idbVars, pageVars, viewVars, navVars, cacheVars, now, currentBook, books, translations, appVars, hookVars,
                   dbVars, eventVars, contentVars>>

\* paragraph texts the cache is called with; the second and the third differ
\* and hash alike
TextAaAaA == <<65, 97, 65, 97, 65>>
TextBBAaA == <<66, 66, 65, 97, 65>>
CacheTexts == {TextHello, TextAaAaA, TextBBAaA}

\* translations a request can have returned
CacheValues == {"T1", "T2"}

\* saveTranslation(bookId, hashText(text), translation), as handleDblClick's try
\* branch calls it
CachePut(b, text, translation) ==
    /\ Len(cachePuts) < MaxPuts
    /\ translations' = saveTranslation(translations, b, hashText(text), translation)
    /\ cachePuts' = Append(cachePuts, [bookId |-> b, text |-> text, value |-> translation])
    /\ cacheGet' = NoGet
    /\ UNCHANGED <<clientVars, idbVars, pageVars, viewVars, navVars, now, currentBook, books, settings, appVars, hookVars,
                   dbVars, eventVars, contentVars>>

\* getTranslation(bookId, hashText(text)), as the content hook calls it
CacheGet(b, text) ==
    /\ cacheGet' = [bookId |-> b, text |-> text,
                    value |-> getTranslation(translations, b, hashText(text))]
    /\ UNCHANGED <<clientVars, idbVars, pageVars, viewVars, navVars, now, storeVars, appVars, hookVars, dbVars, eventVars,
                   contentVars, cachePuts>>

\* a request record: the closure of one handleDblClick invocation past its guards
NewRequest(d, i, block, bookId, text, c) ==
    [doc |-> d, para |-> i, block |-> block, bookId |-> bookId,
     textHash |-> hashText(text), call |-> c]

\* the paragraph and the cache after the awaited translateText settled with c
SettleRequest(ds, cache, r, c) ==
    [docs |-> [ds EXCEPT ![r.doc].paras[r.para] = applyTranslationResult(@, r.block, c)],
     translations |-> cacheAfterTranslation(cache, r.bookId, r.textHash, c)]

\* handleDblClick on paragraph i of document d
HandleDblClick(d, i) ==
    LET p == docs[d].paras[i]
        block == Len(p.blocks) + 1
        c == translateTextStart(settings.apiUrl, settings.apiKey)
        r == NewRequest(d, i, block, docs[d].bookId, p.text, c)
        loading == [docs EXCEPT ![d].paras[i] =
                       [p EXCEPT !.attr = "loading",
                                 !.blocks = Append(@, Block("Translating..."))]]
    IN  /\ p.listener
        /\ IF ~settings.translationEnabled \/ p.attr = "true"
           THEN UNCHANGED <<docs, requests, translations>>
           ELSE /\ Len(requests) < MaxRequests
                /\ requests' = Append(requests, r)
                /\ IF Settled(c)
                   THEN /\ docs' = SettleRequest(loading, translations, r, c).docs
                        /\ translations' = SettleRequest(loading, translations, r, c).translations
                   ELSE /\ docs' = loading
                        /\ UNCHANGED translations
        /\ UNCHANGED <<clientVars, idbVars, pageVars, viewVars, navVars, cacheVars, now, currentBook, books, settings, appVars, hookVars,
                       dbVars, eventVars>>

\* the fetch of request n settles
RequestResponse(n, resp) ==
    LET r == requests[n]
        c == ChatCompletionOnResponse(r.call, resp)
    IN  /\ r.call.phase = "fetching"
        /\ requests' = [requests EXCEPT ![n].call = c]
        /\ IF Settled(c)
           THEN /\ docs' = SettleRequest(docs, translations, r, c).docs
                /\ translations' = SettleRequest(docs, translations, r, c).translations
           ELSE UNCHANGED <<docs, translations>>
        /\ UNCHANGED <<clientVars, idbVars, pageVars, viewVars, navVars, cacheVars, now, currentBook, books, settings, appVars, hookVars,
                       dbVars, eventVars>>

\* the backoff delay of request n is over
RequestDelayElapsed(n) ==
    LET r == requests[n]
        c == ChatCompletionOnDelay(r.call)
    IN  /\ r.call.phase = "delay"
        /\ requests' = [requests EXCEPT ![n].call = c]
        /\ IF Settled(c)
           THEN /\ docs' = SettleRequest(docs, translations, r, c).docs
                /\ translations' = SettleRequest(docs, translations, r, c).translations
           ELSE UNCHANGED <<docs, translations>>
        /\ UNCHANGED <<clientVars, idbVars, pageVars, viewVars, navVars, cacheVars, now, currentBook, books, settings, appVars, hookVars,
                       dbVars, eventVars>>

(***************************************************************************)
(* Durable storage: updateBookProgress of services/db.  Each call reads the *)
(* book in a read-only transaction and then puts it back in a read-write    *)
(* transaction of its own.  Read-only transactions of different calls       *)
(* complete in any order; read-write transactions on one store run in the   *)
(* order they were created.                                                *)
(***************************************************************************)
\* await db.get('books', id) of call n completes; the put is requested
DbGetDone(n) ==
    /\ dbOps[n].phase = "get"
    /\ dbOps' = [dbOps EXCEPT ![n].phase = "put",
                              ![n].read = durable[dbOps[n].bookId],
                              ![n].ticket = 1 + Cardinality({m \in DOMAIN dbOps :
                                                                dbOps[m].ticket > 0})]
    /\ UNCHANGED <<clientVars, idbVars, pageVars, viewVars, navVars, cacheVars, now, storeVars, appVars, hookVars, dbCalls,
                   lastDbCall, durable, eventVars, contentVars>>

\* await db.put('books', book) of call n completes
DbPutDone(n) ==
    /\ dbOps[n].phase = "put"
    /\ \A m \in DOMAIN dbOps :
          (dbOps[m].ticket > 0 /\ dbOps[m].ticket < dbOps[n].ticket) => dbOps[m].phase = "done"
    /\ dbOps' = [dbOps EXCEPT ![n].phase = "done"]
    /\ durable' = [durable EXCEPT ![dbOps[n].bookId] =
                      [dbOps[n].read EXCEPT !.cfi = dbOps[n].cfi,
                                            !.progress = dbOps[n].progress]]
    /\ UNCHANGED <<clientVars, idbVars, pageVars, viewVars, navVars, cacheVars, now, storeVars, appVars, hookVars, dbCalls,
                   lastDbCall, eventVars, contentVars>>

(***************************************************************************)
(* Chapter navigation.                                                     *)
(***************************************************************************)
\* the hrefs the table of contents asks for
Hrefs ==
    { <<"a">>, <<"d", "/", "a">>, <<"a", "#", "s">>, <<"d", "/", "a", "#", "s">>, <<"x">> }

\* goToChapter(href); it returns at once without a rendition and a book
GoToChapter(href) ==
    /\ bookRef # NoHandle
    /\ nav.phase \in {"idle", "done", "failed"}
    /\ navCalls < MaxNavs
    /\ nav' = goToChapterStart(href, shown)
    /\ navCalls' = navCalls + 1
    /\ UNCHANGED <<clientVars, idbVars, pageVars, viewVars, cacheVars, now, storeVars, appVars, hookVars, dbVars,
                   eventVars, contentVars, spine, shown>>

\* the display awaited by tryDisplay resolves (ok) or rejects
DisplaySettles(ok) ==
    /\ nav.phase = "display"
    /\ nav' = tryDisplayOnSettle(nav, ok, spine)
    /\ shown' = IF ok THEN nav.tried[Len(nav.tried)].target ELSE shown
    /\ UNCHANGED <<clientVars, idbVars, pageVars, viewVars, cacheVars, now, storeVars, appVars, hookVars, dbVars,
                   eventVars, contentVars, spine, navCalls>>

(***************************************************************************)
(* Specifications.                                                         *)
(***************************************************************************)
\* one chatCompletion call
NextClient ==
    \/ \E u \in ConfigUrls, k \in ApiKeys : ClientCall(u, k, TranslationMessages(TextHello))
    \/ \E resp \in Responses : ClientResponse(resp)
    \/ AwaitDelay
    \/ ClientDelayElapsed

SpecClient == Init /\ [][NextClient]_vars

(***************************************************************************)
(* A long reading: one book, read over more than six seconds.              *)
(***************************************************************************)
ReadingSteps == {3000, 3001}

ReadingTick(d) ==
    /\ now + d <= MaxReadingClock
    /\ now' = now + d
    /\ UNCHANGED <<clientVars, idbVars, pageVars, viewVars, navVars, cacheVars, storeVars, appVars,
                   hookVars, dbVars, eventVars, contentVars>>

\* the places a long reading passes: forward by one percent, by two, by
\* many, and back
ReadingLocations ==
    { [cfi |-> "cfi1", percentage |-> 10],
      [cfi |-> "cfi1b", percentage |-> 11],
      [cfi |-> "cfi1c", percentage |-> 12],
      [cfi |-> "cfi2", percentage |-> 60] }

NextReading ==
    \/ \E b \in {"A"} : SelectBook(b)
    \/ CloseBook
    \/ \E b \in {"A"} : LoadComplete(b)
    \/ \E d \in ReadingSteps : ReadingTick(d)
    \/ \E loc \in ReadingLocations : LocationEvent(loc)

SpecReading == Init /\ [][NextReading]_vars

(***************************************************************************)
(* The reader's keyboard.  A page turn is the render surface's own: its    *)
(* promise resolves or rejects at any time after the call.                 *)
(***************************************************************************)
\* the table-of-contents drawer is opened or closed: setShowToc
ToggleToc ==
    /\ hookInstance # NoInstance
    /\ showToc' = [showToc EXCEPT ![hookInstance] = ~@]
    /\ UNCHANGED <<clientVars, idbVars, viewVars, navVars, cacheVars, now, storeVars, appVars, hookVars,
                   dbVars, eventVars, contentVars, isNavigatingRef, pageTurns, turnsMade,
                   lastSettled, keysDropped>>

\* handleNavigation(key) up to its await, or to its end when it does not await
HandleNavigation(key) ==
    /\ hookInstance # NoInstance
    /\ IF navigationKeyDropped(showToc[hookInstance], isNavigatingRef[hookInstance])
       THEN /\ keysDropped < MaxDropped
            /\ keysDropped' = keysDropped + 1
            /\ UNCHANGED <<clientVars, idbVars, viewVars, navVars, cacheVars, now, storeVars, appVars,
                           hookVars, dbVars, eventVars, contentVars, isNavigatingRef, showToc,
                           pageTurns, turnsMade, lastSettled>>
       ELSE IF key = "Escape"
       THEN CloseBook
       ELSE /\ turnsMade < MaxTurns
            /\ isNavigatingRef' = [isNavigatingRef EXCEPT ![hookInstance] = TRUE]
            /\ pageTurns' = pageTurns \cup {PageTurn(turnsMade + 1, key, bookRef, hookInstance)}
            /\ turnsMade' = turnsMade + 1
            /\ UNCHANGED <<clientVars, idbVars, viewVars, navVars, cacheVars, now, storeVars, appVars,
                           hookVars, dbVars, eventVars, contentVars, showToc, lastSettled,
                           keysDropped>>

\* the promise of a page turn settles and handleNavigation runs its finally
PageTurnSettles(p, ok) ==
    /\ p \in pageTurns
    /\ pageTurns' = pageTurns \ {p}
    /\ isNavigatingRef' = [isNavigatingRef EXCEPT ![p.instance] = FALSE]
    /\ lastSettled' = [id |-> p.id, ok |-> ok]
    /\ UNCHANGED <<clientVars, idbVars, viewVars, navVars, cacheVars, now, storeVars, appVars, hookVars,
                   dbVars, eventVars, contentVars, showToc, turnsMade, keysDropped>>

\* both books, opened, swapped and closed, with keys pressed in the reader
NextPageTurn ==
    \/ \E b \in BookIds : SelectBook(b)
    \/ CloseBook
    \/ \E b \in BookIds : LoadComplete(b)
    \/ ToggleToc
    \/ \E key \in NavigationKeys : HandleNavigation(key)
    \/ \E p \in pageTurns : \E ok \in BOOLEAN : PageTurnSettles(p, ok)

SpecPageTurn == Init /\ [][NextPageTurn]_vars

(***************************************************************************)
(* The promises of a session: the table of contents and the first display. *)
(* Nothing in the hook cancels them; whether the library still settles     *)
(* them once the book is destroyed is the library's, so they may settle at *)
(* any time or never.                                                      *)
(***************************************************************************)
\* book.loaded.navigation of the book of `handle` resolves
NavigationResolved(handle) ==
    /\ \E p \in thens :
          /\ p.kind = "toc"
          /\ p.handle = handle
          /\ SetHookState(navigationResolved(HookState, handle, p.instance))
    /\ UNCHANGED <<clientVars, idbVars, pageVars, viewVars, navVars, cacheVars, now, currentBook, settings,
                   translations, appVars, eventVars, contentVars>>

\* rendition.display(initialCfi) of the session of `handle` resolves
DisplayResolved(handle) ==
    /\ \E p \in thens :
          /\ p.kind = "display"
          /\ p.handle = handle
          /\ SetHookState(runThen(HookState, p))
    /\ UNCHANGED <<clientVars, idbVars, pageVars, viewVars, navVars, cacheVars, now, currentBook, settings,
                   translations, appVars, eventVars, contentVars>>

\* both books, every interleaving of selecting, loading, reading and closing
\* with the settling of the sessions' promises
NextView ==
    \/ \E b \in BookIds : SelectBook(b)
    \/ CloseBook
    \/ \E b \in BookIds : LoadComplete(b)
    \/ \E loc \in Locations : LocationEvent(loc)
    \/ \E x \in 1..MaxHandles : NavigationResolved(x)
    \/ \E x \in 1..MaxHandles : DisplayResolved(x)

SpecView == Init /\ [][NextView]_vars

(***************************************************************************)
(* The chapter lookup.                                                     *)
(***************************************************************************)
\* book.loaded.navigation resolves with the book's table of contents
NavigationLoaded(t) ==
    /\ navToc = NoToc
    /\ navToc' = t
    /\ UNCHANGED <<clientVars, idbVars, pageVars, navVars, cacheVars, now, storeVars, appVars, hookVars, dbVars,
                   eventVars, contentVars, chapterLookup>>

\* the callback of book.loaded.navigation.then in the relocated handler, for
\* a LocationEvent at currentHref
ChapterLookup(currentHref) ==
    /\ navToc # NoToc
    /\ LET chapter == findChapter(navToc, currentHref) IN
        /\ chapterLookup' = [href |-> currentHref, result |-> chapter, made |-> TRUE]
        /\ SetHookState([HookState EXCEPT
                            !.chapter = IF Truthy(chapter) THEN chapter ELSE @])
    /\ UNCHANGED <<clientVars, idbVars, pageVars, navVars, cacheVars, now, currentBook, settings, translations,
                   appVars, eventVars, contentVars, navToc>>

\* a book with any table of contents, and lookups for any location
NextChapter ==
    \/ \E t \in TocChoices : NavigationLoaded(t)
    \/ \E h \in LocationHrefs : ChapterLookup(h)

SpecChapter == Init /\ [][NextChapter]_vars

\* the Translation Cache called with any book, text and translation, between
\* updates of the store's settings
NextCache ==
    \/ \E b \in BookIds, text \in CacheTexts, t \in CacheValues : CachePut(b, text, t)
    \/ \E b \in BookIds, text \in CacheTexts : CacheGet(b, text)
    \/ \E s \in SettingsChoices : UpdateSettings(s)

SpecCache == Init /\ [][NextCache]_vars

\* message bodies, as UTF-16 code units: a text of n units whose units differ
\* from place to place
TextOfLength(n) == [i \in 1..n |-> 97 + (i % 7)]

MessageContents ==
    { TextHello, TextOfLength(MAX_TEXT_LENGTH), TextOfLength(MAX_TEXT_LENGTH + 1) }

\* the lists chatCompletion is called with: a system message (the prompt, with
\* the quoted context in a chat) and the user's or the assistant's text
MessageLists ==
    { << [role |-> "system", content |-> c1], [role |-> r, content |-> c2] >> :
        c1 \in MessageContents, r \in {"user", "assistant"}, c2 \in MessageContents }

\* one chatCompletion call with any of the message lists
NextTruncate ==
    \/ \E msgs \in MessageLists : ClientCall(AbsoluteApiUrl, "sk-key", msgs)
    \/ \E resp \in TranslateResponses : ClientResponse(resp)
    \/ AwaitDelay
    \/ ClientDelayElapsed

SpecTruncate == Init /\ [][NextTruncate]_vars

\* the progress tracker: one book, opened and closed, read at a fine-grained clock
NextProgress ==
    \/ \E b \in {"A"} : SelectBook(b)
    \/ CloseBook
    \/ \E b \in {"A"} : LoadComplete(b)
    \/ \E d \in TickSteps : Tick(d)
    \/ \E loc \in Locations : LocationEvent(loc)
    \/ TimerFire

SpecProgress == Init /\ [][NextProgress]_vars

\* the same, with the time an armed timer waits for passing and the due
\* timer's callback run by the event loop
NextProgressLive ==
    \/ \E b \in {"A"} : SelectBook(b)
    \/ CloseBook
    \/ \E b \in {"A"} : LoadComplete(b)
    \/ \E d \in TickSteps : Tick(d)
    \/ \E loc \in Locations : LocationEvent(loc)
    \/ TimerFire
    \/ AwaitTimer

SpecProgressLive ==
    /\ Init
    /\ [][NextProgressLive]_vars
    /\ WF_vars(AwaitTimer)
    /\ WF_vars(TimerFire)

\* sessions: both books, every interleaving of selecting, loading and closing,
\* read at a clock that advances by whole throttle windows
Next ==
    \/ \E b \in BookIds : SelectBook(b)
    \/ CloseBook
    \/ \E b \in BookIds : LoadComplete(b)
    \/ \E d \in {throttleMs} : Tick(d)
    \/ \E loc \in Locations : LocationEvent(loc)
    \/ TimerFire

Spec == Init /\ [][Next]_vars

\* one book, opened and closed, its content documents and their translation
NextTranslate ==
    \/ \E b \in {"A"} : SelectBook(b)
    \/ CloseBook
    \/ \E b \in {"A"} : LoadComplete(b)
    \/ DocInject
    \/ \E d \in DOMAIN docs : DocUnload(d)
    \/ \E s \in SettingsChoices : UpdateSettings(s)
    \/ \E d \in DOMAIN docs : \E i \in DOMAIN docs[d].paras : HandleDblClick(d, i)
    \/ \E n \in DOMAIN requests : \E resp \in TranslateResponses : RequestResponse(n, resp)
    \/ \E n \in DOMAIN requests : RequestDelayElapsed(n)

SpecTranslate == Init /\ [][NextTranslate]_vars

\* one book, opened, read and closed, the teardown of a session run once or
\* twice
NextCloseTwice ==
    \/ \E b \in {"A"} : SelectBook(b)
    \/ CloseBook
    \/ CloseBookTwice
    \/ \E b \in {"A"} : LoadComplete(b)
    \/ Tick(throttleMs)
    \/ \E loc \in Locations : LocationEvent(loc)
    \/ TimerFire

SpecCloseTwice == Init /\ [][NextCloseTwice]_vars

\* one book, opened, read and closed, with the durable writes of its flushes
NextDurable ==
    \/ \E b \in {"A"} : SelectBook(b)
    \/ CloseBook
    \/ \E b \in {"A"} : LoadComplete(b)
    \/ Tick(throttleMs)
    \/ \E loc \in Locations : LocationEvent(loc)
    \/ TimerFire
    \/ \E n \in DOMAIN dbOps : DbGetDone(n)
    \/ \E n \in DOMAIN dbOps : DbPutDone(n)

SpecDurable == Init /\ [][NextDurable]_vars

\* one book of any spine, opened, and navigated by the table of contents
NextNavigate ==
    \/ \E b \in {"A"} : SelectBook(b)
    \/ \E b \in {"A"} : LoadComplete(b)
    \/ \E href \in Hrefs : GoToChapter(href)
    \/ \E ok \in BOOLEAN : DisplaySettles(ok)

SpecNavigate == InitNavigate /\ [][NextNavigate]_vars

(***************************************************************************)
(* Properties of the LLM request client, checked under SpecClient.         *)
(***************************************************************************)
\* HTTP 429 or any 5xx, as the retry policy words it
TransientStatus(st) == st = 429 \/ st \in 500..599

TransientResponse(resp) == resp.kind = "http" /\ TransientStatus(resp.status)

\* the configured URL is absolute: its first non-blank token is a scheme
ConfiguredAbsolute(url) ==
    \E i \in 1..Len(url) :
        /\ url[i] \in {"http://", "https://", "HTTPS://"}
        /\ \A j \in 1..(i - 1) : url[j] = " "

\* C5: when the backend answers k transient failures (k <= 2) and then HTTP 200
\* with non-empty content, chatCompletion returns that content after exactly
\* k + 1 fetches: it has not given up after the k failures, and the 200 ends it.
C5_RetriesThenSuccess ==
    \A k \in 0..2 :
        /\ ( /\ clientCall.phase # "idle"
             /\ clientCall.fetches > 0
             /\ Len(served) = k
             /\ \A i \in 1..k : TransientResponse(served[i]) )
           => /\ clientCall.phase \in {"fetching", "delay"}
              /\ clientCall.fetches \in {k, k + 1}
        /\ ( /\ Len(served) = k + 1
             /\ \A i \in 1..k : TransientResponse(served[i])
             /\ served[k + 1].kind = "http"
             /\ served[k + 1].status = 200
             /\ served[k + 1].content # "" )
           => /\ clientCall.phase = "returned"
              /\ clientCall.result = served[k + 1].content
              /\ clientCall.fetches = k + 1

\* 500, 500, 200 has been served and the call has returned after 3 fetches
C5_Witness ==
    /\ Len(served) = 3
    /\ served[1].status = 500 /\ served[2].status = 500
    /\ served[3] = HttpResponse(200, "T1")
    /\ clientCall.phase = "returned"
    /\ clientCall.fetches = 3

\* C6: a non-2xx status that is neither 429 nor 5xx ends the call at once: no
\* fetch and no backoff delay follows it, and the error thrown is marked
\* non-retryable and carries the status; as the first answer it leaves the
\* call with exactly 1 fetch and no delay at all.
C6_PermanentStatusNotRetried ==
    \A n \in 1..Len(served) :
        ( /\ served[n].kind = "http"
          /\ ~(served[n].status \in 200..299)
          /\ ~TransientStatus(served[n].status) )
        => /\ Len(served) = n
           /\ clientCall.phase = "thrown"
           /\ clientCall.fetches = n
           /\ Len(clientCall.waits) = n - 1
           /\ clientCall.lastError.name = "TranslationError"
           /\ clientCall.lastError.statusCode = served[n].status
           /\ clientCall.lastError.isRetryable = FALSE

\* a 404 as the first answer: thrown after 1 fetch, no delay
C6_Witness ==
    /\ Len(served) = 1
    /\ served[1].kind = "http" /\ served[1].status = 404
    /\ clientCall.phase = "thrown"
    /\ clientCall.fetches = 1
    /\ clientCall.waits = <<>>

\* C7: against a backend that only answers with transient statuses the call
\* never issues a 4th fetch, is still running before the 3rd answer, and ends
\* with the 3rd answer by throwing that answer's error.
C7_RetriesExhausted ==
    (clientCall.phase # "idle" /\ \A i \in 1..Len(served) : TransientResponse(served[i]))
    => /\ clientCall.fetches <= 3
       /\ Len(served) <= 3
       /\ (Len(served) < 3 /\ clientCall.fetches > 0
              => clientCall.phase \in {"fetching", "delay"})
       /\ (Len(served) = 3
              => /\ clientCall.phase = "thrown"
                 /\ clientCall.fetches = 3
                 /\ clientCall.lastError.statusCode = served[3].status)

\* three transient answers with different statuses, the last one thrown
C7_Witness ==
    /\ Len(served) = 3
    /\ served[1].status = 500 /\ served[2].status = 429 /\ served[3].status = 503
    /\ clientCall.phase = "thrown"
    /\ clientCall.lastError.statusCode = 503

\* C8: with an absolute endpoint and an empty API key the call fails at once:
\* no fetch is ever issued, no delay is awaited, and the error is non-retryable.
C8_MissingCredentialFailsFast ==
    (clientCall.phase # "idle" /\ ConfiguredAbsolute(callInput.apiUrl) /\ callInput.apiKey = "")
    => /\ clientCall.phase = "thrown"
       /\ clientCall.fetches = 0
       /\ served = <<>>
       /\ clientCall.waits = <<>>
       /\ clientCall.lastError.name = "TranslationError"
       /\ clientCall.lastError.isRetryable = FALSE

\* the call was made with an upper-case scheme, blanks around the URL and no key
C8_Witness ==
    /\ clientCall.phase = "thrown"
    /\ callInput.apiKey = ""
    /\ callInput.apiUrl \in { <<"HTTPS://", "host">>,
                             <<" ", "https://", "host", "/", "v1", "/", " ">> }
    /\ clientCall.fetches = 0

\* a 2xx response whose answer string is empty or missing
EmptyAnswer(resp) ==
    \/ resp.kind = "http" /\ resp.status \in 200..299 /\ resp.content = ""
    \/ resp.kind = "nochoices"

\* C20: a 2xx response with an empty or missing answer ends the call: no fetch
\* follows it, no backoff delay is waited for after it, the call throws an error
\* that is not retryable, and a call that returns never returns the empty
\* string.
C20_EmptyAnswerNotRetried ==
    /\ \A n \in 1..Len(served) :
          EmptyAnswer(served[n]) =>
              /\ Len(served) = n
              /\ clientCall.phase = "thrown"
              /\ clientCall.fetches = n
              /\ Len(clientCall.waits) = n - 1
              /\ clientCall.lastError # NoError
              /\ clientCall.lastError.isRetryable = FALSE
    /\ clientCall.phase = "returned" => clientCall.result # ""

\* after one transient failure, with retries left, a 200 with an empty answer
\* ended the call
C20_Witness ==
    /\ Len(served) = 2
    /\ TransientResponse(served[1])
    /\ served[2] = HttpResponse(200, "")
    /\ clientCall.phase = "thrown"
    /\ clientCall.fetches = 2
    /\ clientCall.lastError.name = "TranslationError"

\* the configured URL without the blanks around it and, then, without the
\* slashes at its end
Canonical(url) ==
    LET solid == {k \in DOMAIN url : url[k] # " "}
        first == CHOOSE k \in solid : \A j \in solid : k <= j
        last == CHOOSE k \in solid : \A j \in solid : j <= k
        kept == {k \in first..last : \E j \in k..last : url[j] # "/"}
    IN  IF solid = {} THEN <<>> ELSE [k \in 1..Cardinality(kept) |-> url[first + k - 1]]

\* the URL names the completion path '/chat/completions'
NamesCompletionPath(u) ==
    \E k \in 1..Len(u) :
        /\ k + 3 <= Len(u)
        /\ u[k] = "/" /\ u[k + 1] = "chat" /\ u[k + 2] = "/" /\ u[k + 3] = "completions"

\* the URL ends in the API-version segment '/v1'
EndsInVersion(u) == Len(u) >= 2 /\ u[Len(u) - 1] = "/" /\ u[Len(u)] = "v1"

\* C24 as stated: the endpoint a call's requests go to is the configured URL
\* (blanks around it and slashes at its end dropped) as it is if it names the
\* completion path; else with '/chat/completions' appended if it ends in
\* '/v1'; else with '/chat/completions' appended directly.
C24_NamedPathUsedAsIs ==
    clientCall.phase # "idle" =>
        LET u == Canonical(callInput.apiUrl)
        IN  clientCall.endpoint =
                IF NamesCompletionPath(u) THEN u
                ELSE IF EndsInVersion(u) THEN u \o <<"/", "chat", "/", "completions">>
                ELSE u \o <<"/", "chat", "/", "completions">>

\* C24 amended: the '/v1' ending is looked at first: a URL that ends in '/v1'
\* gets '/chat/completions' appended even if it names the completion path
\* before that; otherwise a URL that names the completion path is used as it
\* is, and any other gets '/chat/completions' appended.
C24_VersionSuffixFirst ==
    clientCall.phase # "idle" =>
        LET u == Canonical(callInput.apiUrl)
        IN  clientCall.endpoint =
                IF EndsInVersion(u) THEN u \o <<"/", "chat", "/", "completions">>
                ELSE IF NamesCompletionPath(u) THEN u
                ELSE u \o <<"/", "chat", "/", "completions">>

\* a URL with blanks around it and a slash after its '/v1': the request went
\* to the host's /v1/chat/completions
C24_Witness ==
    /\ callInput.apiUrl = <<" ", "https://", "host", "/", "v1", "/", " ">>
    /\ Len(wire) >= 1
    /\ clientCall.endpoint = <<"https://", "host", "/", "v1", "/", "chat", "/", "completions">>

\* the smaller of two numbers
Min(a, b) == IF a <= b THEN a ELSE b

\* C23: every request of a call carries as many messages as the call was given,
\* in the same order and with the same roles; the body of each is the first
\* min(length, 6000) code units of the original body, so none is longer than
\* 6000; and every retry carries the same list as the first request.
C23_MessagesTruncated ==
    \A k \in DOMAIN wire :
        LET sent == wire[k].messages
            orig == callInput.messages
        IN  /\ Len(sent) = Len(orig)
            /\ \A i \in DOMAIN sent :
                  /\ sent[i].role = orig[i].role
                  /\ Len(sent[i].content) = Min(Len(orig[i].content), 6000)
                  /\ Len(sent[i].content) <= 6000
                  /\ \A j \in 1..Len(sent[i].content) :
                        sent[i].content[j] = orig[i].content[j]
            /\ sent = wire[1].messages

\* a system message of 6001 units and a user message of 5: three requests went
\* out, each with the system message cut to 6000 and the user message whole
C23_Witness ==
    /\ Len(wire) = 3
    /\ Len(callInput.messages[1].content) = 6001
    /\ callInput.messages[2].content = TextHello
    /\ Len(wire[3].messages[1].content) = 6000
    /\ wire[3].messages[2].content = TextHello

\* C21: a call whose configured endpoint is relative (same-origin) sends every
\* request without an Authorization header, whatever API key is configured, and
\* never fails for a missing credential (it does issue its request); a call
\* whose endpoint is absolute issues a request only with a non-empty key, and
\* every request of it carries Authorization: Bearer <that key>.
C21_CredentialOnlyToAbsolute ==
    clientCall.phase # "idle" =>
        IF ConfiguredAbsolute(callInput.apiUrl)
        THEN \A k \in DOMAIN wire :
                /\ callInput.apiKey # ""
                /\ wire[k].authorization = <<"Bearer", callInput.apiKey>>
        ELSE /\ \A k \in DOMAIN wire : wire[k].authorization = <<>>
             /\ Len(wire) >= 1
             /\ clientCall.lastError.message.text # "API Key is required"

\* a key is configured, the endpoint is the relative proxy path, and the call
\* has returned after a request sent without the header
C21_Witness ==
    /\ callInput.apiUrl = <<"/", "api">>
    /\ callInput.apiKey = "sk-key"
    /\ clientCall.phase = "returned"
    /\ Len(wire) = 1
    /\ wire[1].authorization = <<>>

\* the call is over: it has returned or thrown
CallSettled == clientCall.phase \in {"returned", "thrown"}

\* C22: the wait that follows failed attempt number k (k = 0, 1) is
\* 1000 * 2^k ms and is taken only after a transient failure; the next request
\* goes out no earlier than that wait after the failure was handled; the first
\* request goes out when the call is made; and an answer that is not a
\* transient failure, or the answer to the third request, ends the call with no
\* wait after it.
C22_ExponentialBackoff ==
    clientCall.phase # "idle" =>
        /\ Len(clientCall.waits) <= 2
        /\ \A k \in DOMAIN clientCall.waits :
              /\ clientCall.waits[k] = 1000 * Pow2(k - 1)
              /\ TransientResponse(served[k])
        /\ \A k \in DOMAIN wire :
              IF k = 1 THEN wire[k].at = callInput.at
              ELSE /\ k - 1 \in DOMAIN clientCall.waits
                   /\ wire[k].at >= answeredAt[k - 1] + clientCall.waits[k - 1]
        /\ Len(wire) = clientCall.fetches
        /\ clientCall.phase = "delay" => Len(clientCall.waits) = Len(wire)
        /\ clientCall.phase # "delay" /\ Len(wire) > 0 => Len(clientCall.waits) = Len(wire) - 1
        /\ \A n \in DOMAIN served :
              (~TransientResponse(served[n]) \/ n = 3) =>
                  /\ Len(served) = n
                  /\ CallSettled
                  /\ Len(clientCall.waits) = n - 1

\* two transient failures and a third one: the requests went out 1000 ms and
\* 2000 ms after the failures, and nothing was waited for after the third
C22_Witness ==
    /\ Len(wire) = 3
    /\ clientCall.waits = <<1000, 2000>>
    /\ wire[2].at = answeredAt[1] + 1000
    /\ wire[3].at = answeredAt[2] + 2000
    /\ Len(served) = 3
    /\ clientCall.phase = "thrown"
    /\ now = answeredAt[3]

(***************************************************************************)
(* Properties of the progress tracker, checked under SpecProgress.         *)
(***************************************************************************)
\* the write a LocationEvent asks for
EventSave(e) == [bookId |-> e.bookId, cfi |-> e.cfi, percentage |-> e.percentage]

\* the session that was mounted first is still the mounted one
FirstSessionOpen == handlesMade = 1 /\ bookRef = 1

TwoEvents200msApartFlushed ==
    /\ nEvents >= 2
    /\ lastEvent.at - prevEvent.at = 200
    /\ lastEvent.handle = prevEvent.handle
    /\ pendingProgressSave = NoPending

\* C3: two LocationEvents of one session arrive 200 ms apart, both inside the
\* 1500 ms throttle window, i.e. both less than 1500 ms after the flush that
\* preceded the first of them: exactly one durable write occurs for them and
\* it contains the second event's data.
C3_TwoEventsInsideWindowOneWrite ==
    (TwoEvents200msApartFlushed /\ lastEvent.at - prevEvent.flushAt < throttleMs)
    => /\ dbCalls - prevEvent.callsBefore = 1
       /\ lastDbCall = EventSave(lastEvent)

\* two events 200 ms apart inside the window of an earlier flush, written once
\* by the timer
C3_Witness ==
    /\ TwoEvents200msApartFlushed
    /\ lastEvent.at - prevEvent.flushAt < throttleMs
    /\ lastEvent.handle = bookRef
    /\ dbCalls - prevEvent.callsBefore = 1
    /\ lastProgressSaveAt >= prevEvent.flushAt + throttleMs

\* C16: the session has one pending slot.  A LocationEvent with a current
\* book leaves exactly its own data in the slot, or has it flushed at once,
\* whatever the slot held and whether or not its percentage is lower than the
\* one before; so a pending write is always the most recent event's.  When the
\* throttle timer fires, what is pending at that moment is written and the slot
\* and the timer handle are cleared.
C16_SinglePendingSlot ==
    [][ /\ (nEvents' = nEvents + 1 /\ currentBook # NoBook) =>
              \/ /\ pendingProgressSave' = EventSave(lastEvent')
                 /\ dbCalls' = dbCalls
              \/ /\ pendingProgressSave' = NoPending
                 /\ dbCalls' = dbCalls + 1
                 /\ lastDbCall' = EventSave(lastEvent')
        /\ (pendingProgressSave' # NoPending) =>
              /\ pendingProgressSave' = EventSave(lastEvent')
              /\ lastEvent'.handle = bookRef'
        /\ ( /\ progressSaveTimer # NoTimer /\ progressSaveTimer' = NoTimer
             /\ bookRef' = bookRef /\ nEvents' = nEvents ) =>
              /\ pendingProgressSave # NoPending
              /\ pendingProgressSave' = NoPending
              /\ dbCalls' = dbCalls + 1
              /\ lastDbCall' = pendingProgressSave
              /\ lastDbCall' = EventSave(lastEvent)
      ]_vars

\* the timer, armed by an earlier event, has written a later event whose
\* percentage is lower than that of the event before it
C16_Witness ==
    /\ nEvents = 3
    /\ lastEvent.coalesced
    /\ lastEvent.percentage < prevEvent.percentage
    /\ lastEvent.handle = bookRef
    /\ pendingProgressSave = NoPending
    /\ progressSaveTimer = NoTimer
    /\ lastDbCall = EventSave(lastEvent)

\* C17: whenever a progress write is pending (it is the latest LocationEvent's,
\* by C16), then, the timer firing when due or the session being torn down, a
\* state follows in which the slot is empty and the latest durable write
\* carries the latest LocationEvent's data.
C17_LastEventEventuallyFlushed ==
    (pendingProgressSave # NoPending)
        ~> (pendingProgressSave = NoPending /\ lastDbCall = EventSave(lastEvent))

\* the last event was deferred and the timer has written it since
C17_Witness ==
    /\ nEvents >= 2
    /\ lastEvent.handle = bookRef
    /\ lastEvent.at < lastProgressSaveAt
    /\ lastProgressSaveAt = lastEvent.flushAt + throttleMs
    /\ pendingProgressSave = NoPending
    /\ lastDbCall = EventSave(lastEvent)

(***************************************************************************)
(* Properties of the session lifecycle, checked under Spec.                *)
(***************************************************************************)
\* this step tears the mounted session down (its handle is destroyed)
TeardownStep == bookRef # NoHandle /\ bookRef \notin liveHandles'

\* C4: a teardown (close or book swap) flushes the pending progress write before
\* it destroys the book handle: the write is made to the book list and handed
\* to durable storage, the flush precedes the destroy among the effects of the
\* commit, and afterwards the pending slot is empty and no timer is armed.
C4_TeardownFlushesFirst ==
    [][ TeardownStep =>
          /\ pendingProgressSave' = NoPending
          /\ progressSaveTimer' = NoTimer
          /\ \E j \in DOMAIN effects' : effects'[j] = Effect("destroy", bookRef, NoPending)
          /\ pendingProgressSave # NoPending =>
                /\ dbCalls' = dbCalls + 1
                /\ lastDbCall' = pendingProgressSave
                /\ books'[pendingProgressSave.bookId] =
                       [cfi |-> pendingProgressSave.cfi,
                        progress |-> pendingProgressSave.percentage]
                /\ \E i, j \in DOMAIN effects' :
                       /\ i < j
                       /\ effects'[i] = Effect("flush", bookRef, pendingProgressSave)
                       /\ effects'[j] = Effect("destroy", bookRef, NoPending)
                /\ \A i, j \in DOMAIN effects' :
                       (effects'[i].op = "flush" /\ effects'[j].op = "destroy") => i < j
      ]_vars

\* the latest commit cancelled the timer, flushed a pending write and then
\* destroyed the book
C4_Witness ==
    \E i, j, k \in DOMAIN effects :
        /\ i < j /\ j < k
        /\ effects[i].op = "clearTimeout"
        /\ effects[j].op = "flush"
        /\ effects[k].op = "destroy"
        /\ pendingProgressSave = NoPending
        /\ lastDbCall = effects[j].save

\* C9: at most one book handle is created and not destroyed, it is the one of
\* the mounted session, and within a commit every teardown effect (timer
\* cancel, flush, listener detach, handle release) precedes the construction of
\* the next session's book handle and render surface.
C9_OneLiveSession ==
    /\ Cardinality(liveHandles) <= 1
    /\ liveHandles = IF bookRef = NoHandle THEN {} ELSE {bookRef}
    /\ \A i, j \in DOMAIN effects :
          ( /\ effects[i].op \in {"clearTimeout", "flush", "removeListener", "destroy"}
            /\ effects[j].op \in {"ePub", "renderTo"} )
          => i < j
    /\ \A j \in DOMAIN effects :
          (effects[j].op = "ePub" /\ effects[j].handle > 1 /\ Len(effects) > 2)
          => \E i \in 1..(j - 1) :
                effects[i].op = "destroy" /\ effects[i].handle = effects[j].handle - 1

\* the book was swapped under the mounted reader: the old handle was destroyed
\* and a second one created in the same commit
C9_Witness ==
    /\ handlesMade = 2
    /\ liveHandles = {2}
    /\ \E i, j \in DOMAIN effects :
          /\ i < j
          /\ effects[i] = Effect("destroy", 1, NoPending)
          /\ effects[j] = Effect("ePub", 2, NoPending)

\* the effects of kind op among the effects of the latest commit
EffectsOf(log, op) == {j \in DOMAIN log : log[j].op = op}

\* this step tears the session down twice in a row
TornDownTwice == TeardownStep /\ Cardinality(EffectsOf(effects', "destroy")) = 2

\* C30: when the session teardown is run twice in a row, the second run is a
\* no-op: the two runs together write the pending progress once if there is
\* one and not at all otherwise, to the book list and to durable storage alike,
\* no write and no cancelled timer comes after the first release of the
\* handle, and the session is left as one
\* teardown leaves it: nothing pending, no timer, the handle released.
C30_TeardownIdempotent ==
    [][ TornDownTwice =>
          LET writes == IF pendingProgressSave # NoPending THEN 1 ELSE 0
          IN  /\ dbCalls' = dbCalls + writes
              /\ Len(dbOps') = Len(dbOps) + writes
              /\ Cardinality(EffectsOf(effects', "flush")) = writes
              /\ pendingProgressSave # NoPending =>
                    /\ lastDbCall' = pendingProgressSave
                    /\ books' = StoreUpdateBookProgress(books, pendingProgressSave.bookId,
                                     pendingProgressSave.cfi, pendingProgressSave.percentage)
              /\ pendingProgressSave = NoPending =>
                    /\ books' = books
                    /\ lastDbCall' = lastDbCall
              /\ \A i \in EffectsOf(effects', "flush") \cup EffectsOf(effects', "clearTimeout") :
                    \A j \in EffectsOf(effects', "destroy") : i < j
              /\ pendingProgressSave' = NoPending
              /\ progressSaveTimer' = NoTimer
              /\ liveHandles' = liveHandles \ {bookRef}
              /\ bookRef' = NoHandle
      ]_vars

\* the teardown was run twice on a session with a pending write: the commit
\* shows one flush and two releases of the handle, and the last event was
\* written once
C30_Witness ==
    /\ Cardinality(EffectsOf(effects, "destroy")) = 2
    /\ Cardinality(EffectsOf(effects, "flush")) = 1
    /\ bookRef = NoHandle
    /\ liveHandles = {}
    /\ nEvents >= 2
    /\ dbCalls = lastEvent.callsBefore + 1
    /\ lastDbCall = EventSave(lastEvent)

(***************************************************************************)
(* Properties of the translation handler, checked under SpecTranslate.     *)
(***************************************************************************)
\* request n settles in this step, by returning or by throwing
SettlesNow(n) ==
    /\ n \in DOMAIN requests'
    /\ Settled(requests'[n].call)
    /\ (n \in DOMAIN requests => ~Settled(requests[n].call))

\* C1: a request that fails (missing credential, non-retryable status, empty
\* response, retries exhausted) leaves the translations map unchanged, and the
\* map changes only in a step in which a request returns, by exactly the entry
\* <<bookId, hash>> -> the returned, non-empty text.
C1_CacheOnlyAfterSuccess ==
    [][ /\ \A n \in DOMAIN requests' :
              (SettlesNow(n) /\ requests'[n].call.phase = "thrown")
              => translations' = translations
        /\ translations' # translations =>
              \E n \in DOMAIN requests' :
                  /\ SettlesNow(n)
                  /\ requests'[n].call.phase = "returned"
                  /\ requests'[n].call.result # ""
                  /\ DOMAIN translations' =
                        DOMAIN translations \cup {<<requests'[n].bookId, requests'[n].textHash>>}
                  /\ \A k \in DOMAIN translations' :
                        translations'[k] =
                            IF k = <<requests'[n].bookId, requests'[n].textHash>>
                            THEN requests'[n].call.result
                            ELSE translations[k]
      ]_vars

\* one request has failed after its retries were exhausted, another one has
\* returned, and the cache holds exactly the entry of the one that returned
C1_Witness ==
    \E n, m \in DOMAIN requests :
        /\ requests[n].call.phase = "thrown"
        /\ requests[n].call.fetches = 3
        /\ requests[m].call.phase = "returned"
        /\ DOMAIN translations = {<<"A", hashText(TextHello)>>}
        /\ translations[<<"A", hashText(TextHello)>>] = requests[m].call.result

\* C10 as stated: a response that arrives after the paragraph's document was
\* unloaded (chapter transition or session teardown) is discarded: it changes
\* neither the Translation Cache nor the paragraph.
C10_LateResponseDiscarded ==
    [][ \A n \in DOMAIN requests :
            ( /\ ~Settled(requests[n].call)
              /\ ~docs[requests[n].doc].loaded
              /\ Settled(requests'[n].call) )
            => /\ translations' = translations
               /\ docs'[requests[n].doc].paras[requests[n].para] =
                      docs[requests[n].doc].paras[requests[n].para]
      ]_vars

\* the requests of paragraph i of document d that have not settled yet
InFlight(d, i) ==
    {n \in DOMAIN requests :
        requests[n].doc = d /\ requests[n].para = i /\ ~Settled(requests[n].call)}

\* the placeholders ("Translating...") paragraph p shows
Placeholders(p) == {b \in DOMAIN p.blocks : p.blocks[b] = Block("Translating...")}

\* C11 as stated: a double-click starts no request on a paragraph that is
\* mid-translation, so at most one translation request per paragraph is in
\* flight at any time and at most one placeholder is shown for it.
C11_OneRequestPerParagraph ==
    \A d \in DOMAIN docs : \A i \in DOMAIN docs[d].paras :
        /\ Cardinality(InFlight(d, i)) <= 1
        /\ Cardinality(Placeholders(docs[d].paras[i])) <= 1

\* the key of paragraph p of document doc in the Translation Cache
CacheKey(doc, p) == <<doc.bookId, hashText(p.text)>>

\* C12: when a content document is injected, every paragraph of it whose
\* (bookId, hashText(text)) is in the Translation Cache shows the cached text in
\* one translation block and is marked translated in that same step, no request
\* is issued by the injection, a double-click on a translated paragraph starts
\* no request, and a translated paragraph with no request in flight stays as
\* it is.
C12_CachedTranslationRestored ==
    [][ /\ Len(docs') = Len(docs) + 1 =>
              /\ requests' = requests
              /\ \A i \in DOMAIN docs'[Len(docs')].paras :
                    LET doc == docs'[Len(docs')]
                        p == doc.paras[i]
                    IN  CacheKey(doc, p) \in DOMAIN translations =>
                            /\ p.attr = "true"
                            /\ p.blocks = <<Block(translations[CacheKey(doc, p)])>>
        /\ Len(requests') = Len(requests) + 1 =>
              LET r == requests'[Len(requests')]
              IN  docs[r.doc].paras[r.para].attr # "true"
        /\ \A d \in DOMAIN docs : \A i \in DOMAIN docs[d].paras :
              (docs[d].paras[i].attr = "true" /\ InFlight(d, i) = {}) =>
                  /\ docs'[d].paras[i].attr = "true"
                  /\ docs'[d].paras[i].blocks = docs[d].paras[i].blocks
      ]_vars

\* one request translated "Hello" in the first session; the book was closed and
\* reopened, and the re-rendered chapter shows the cached text with no second
\* request
C12_Witness ==
    /\ Len(docs) = 2
    /\ docs[1].handle = 1 /\ docs[2].handle = 2
    /\ docs[2].loaded
    /\ docs[2].paras[1].text = TextHello
    /\ docs[2].paras[1].attr = "true"
    /\ docs[2].paras[1].blocks = <<Block("T1")>>
    /\ Len(requests) = 1
    /\ requests[1].doc = 1
    /\ requests[1].call.fetches = 1

\* a double-click on paragraph i of document d that starts a request
StartsRequest(d, i) == HandleDblClick(d, i) /\ Len(requests') = Len(requests) + 1

\* a request of paragraph i of document d has failed, none is in flight, and
\* the paragraph can still be double-clicked with translation switched on
FailedAndIdle(d, i) ==
    /\ \E n \in DOMAIN requests :
          /\ requests[n].doc = d /\ requests[n].para = i
          /\ requests[n].call.phase = "thrown"
    /\ InFlight(d, i) = {}
    /\ docs[d].paras[i].listener
    /\ docs[d].paras[i].attr # "true"
    /\ settings.translationEnabled
    /\ Len(requests) < MaxRequests

\* C28: in the step in which a translation request fails, its block in the
\* paragraph (the placeholder) gets the error's message, the paragraph's
\* data-translated mark is removed, and nothing else changes: not the
\* paragraph's text, listener and other blocks, not any other paragraph, not
\* the Translation Cache, not the book list, the pending progress write, its
\* timer and the durable writes.  And a paragraph left by a failed request can
\* be double-clicked into a new request.
C28_FailureResetsParagraph ==
    /\ [][ \A n \in DOMAIN requests' :
              (SettlesNow(n) /\ requests'[n].call.phase = "thrown") =>
                  LET r == requests'[n]
                      p == docs'[r.doc].paras[r.para]
                      old == docs[r.doc].paras[r.para]
                  IN  /\ p.blocks[r.block] = r.call.lastError.message
                      /\ p.blocks[r.block] # Block("Translating...")
                      /\ p.attr = "none"
                      /\ p.text = old.text /\ p.listener = old.listener
                      /\ Len(p.blocks) = r.block \/ Len(p.blocks) = Len(old.blocks)
                      /\ \A b \in DOMAIN old.blocks : b # r.block => p.blocks[b] = old.blocks[b]
                      /\ \A d \in DOMAIN docs : \A i \in DOMAIN docs[d].paras :
                            (d # r.doc \/ i # r.para) => docs'[d].paras[i] = docs[d].paras[i]
                      /\ translations' = translations
                      /\ <<books, currentBook, hookVars, dbVars>>' =
                             <<books, currentBook, hookVars, dbVars>>
          ]_vars
    /\ [](\A d \in DOMAIN docs : \A i \in DOMAIN docs[d].paras :
              FailedAndIdle(d, i) => ENABLED StartsRequest(d, i))

\* a first request failed at once for the missing API key (its block shows
\* the message), the settings were changed to the proxy, and a second
\* double-click on the paragraph has a request in flight
C28_Witness ==
    /\ Len(requests) = 2
    /\ requests[1].doc = requests[2].doc /\ requests[1].para = requests[2].para
    /\ requests[1].call.phase = "thrown"
    /\ requests[1].call.fetches = 0
    /\ requests[2].call.phase = "fetching"
    /\ docs[requests[1].doc].paras[requests[1].para].blocks =
           <<Block("API Key is required"), Block("Translating...")>>
    /\ docs[requests[1].doc].paras[requests[1].para].attr = "loading"

\* the listeners registered on document doc and on its paragraphs
ListenersOf(doc) ==
    {<<"dblclick", i>> : i \in {j \in DOMAIN doc.paras : doc.paras[j].listener}}
        \cup (IF doc.keydown THEN {<<"keydown", 0>>} ELSE {})
        \cup (IF doc.mouseup THEN {<<"mouseup", 0>>} ELSE {})

PutsToKeyOf(g) ==
    {k \in DOMAIN cachePuts :
        /\ cachePuts[k].bookId = g.bookId
        /\ hashText(cachePuts[k].text) = hashText(g.text)}

\* C25: a get(b, hashText(s)) returns exactly the translation of the latest
\* put(b, hashText(s'), t) whose key is the same, s' hashed at the put and s at
\* the get, whatever other puts, gets and settings updates came in between;
\* and it returns nothing when no put was made to that key.
C25_RoundTrip ==
    cacheGet # NoGet =>
        LET same == PutsToKeyOf(cacheGet)
            latest == CHOOSE k \in same : \A j \in same : j <= k
        IN  IF same = {} THEN cacheGet.value = ""
            ELSE cacheGet.value = cachePuts[latest].value

\* a translation was put for a text, then puts to two other keys were made,
\* and a get for the text returns the translation
C25_Witness ==
    /\ Len(cachePuts) = 3
    /\ cachePuts[1] = [bookId |-> "A", text |-> TextHello, value |-> "T2"]
    /\ cachePuts[2].bookId = "B" /\ cachePuts[2].text = TextHello
    /\ cachePuts[3].bookId = "A" /\ cachePuts[3].text = TextAaAaA
    /\ cacheGet = [bookId |-> "A", text |-> TextHello, value |-> "T2"]
    /\ settings # DefaultSettings

\* C26 as stated: a get for a text returns a translation only if that
\* translation was put for that very text in that book: a translation stored
\* for a different text is never returned.
C26_NoStaleHit ==
    (cacheGet # NoGet /\ cacheGet.value # "") =>
        \E k \in DOMAIN cachePuts :
            /\ cachePuts[k].bookId = cacheGet.bookId
            /\ cachePuts[k].text = cacheGet.text
            /\ cachePuts[k].value = cacheGet.value

\* C27: a saveTranslation call sets the entry of its key to its value,
\* whatever the entry held, and leaves every other entry as it is; no step
\* removes an entry or changes one without a put to its key.
C27_LastWriteWinsNoEviction ==
    [][ LET put == Len(cachePuts') = Len(cachePuts) + 1
            p == cachePuts'[Len(cachePuts')]
            key == <<p.bookId, hashText(p.text)>>
        IN  /\ \A k \in DOMAIN translations :
                  /\ k \in DOMAIN translations'
                  /\ (~put \/ k # key) => translations'[k] = translations[k]
            /\ put => /\ DOMAIN translations' = DOMAIN translations \cup {key}
                       /\ translations'[key] = p.value
            /\ ~put => DOMAIN translations' = DOMAIN translations
      ]_vars

\* two puts to one key with different translations, a put to another key in
\* between: the later translation is held, the other entry kept
C27_Witness ==
    /\ Len(cachePuts) = 3
    /\ cachePuts[1] = [bookId |-> "A", text |-> TextHello, value |-> "T1"]
    /\ cachePuts[2] = [bookId |-> "A", text |-> TextAaAaA, value |-> "T1"]
    /\ cachePuts[3] = [bookId |-> "A", text |-> TextHello, value |-> "T2"]
    /\ translations[<<"A", hashText(TextHello)>>] = "T2"
    /\ translations[<<"A", hashText(TextAaAaA)>>] = "T1"

(***************************************************************************)
(* Properties of chapter navigation, checked under SpecNavigate.           *)
(***************************************************************************)
\* C13: when every strategy of goToChapter has failed (each display issued
\* rejected, or the spine scan found no entry), the call has logged the failure,
\* has thrown nothing to its caller, and what the render surface shows is what
\* it showed when the call was made.
C13_NavigationFailsSoftly ==
    nav.phase = "failed" =>
        /\ ~nav.thrown
        /\ nav.log # <<>> /\ nav.log[Len(nav.log)] = "error"
        /\ \A k \in DOMAIN nav.tried : nav.tried[k].outcome = "rejected"
        /\ shown = nav.shownBefore

\* a first navigation moved the reader, a second one failed in all three
\* strategies and left it there
C13_Witness ==
    /\ nav.phase = "failed"
    /\ Len(nav.tried) = 3
    /\ navCalls = 2
    /\ shown # <<>>
    /\ shown = nav.shownBefore

\* C14: the display attempts of one goToChapter call are made in the order
\* (1) the href as given, (2) the href without its fragment, (3) the first
\* matching spine entry, one attempt per strategy at most; an attempt is
\* followed by another one only if it rejected, so nothing is displayed after a
\* display that resolved.
C14_OrderedFallback ==
    LET t == nav.tried
    IN  /\ nav.phase # "idle" => /\ Len(t) >= 1
                                 /\ t[1].step = 1
                                 /\ t[1].target = nav.href
        /\ \A k \in DOMAIN t :
              /\ k < Len(t) => /\ t[k].outcome = "rejected"
                               /\ t[k].step < t[k + 1].step
              /\ t[k].step = 2 => /\ t[k].target = SplitHash(nav.href)
                                  /\ t[k].target # nav.href
              /\ t[k].step = 3 =>
                    /\ \E j \in DOMAIN spine :
                          /\ spine[j] = t[k].target
                          /\ spineItemMatches(spine[j], nav.href)
                          /\ \A i \in 1..(j - 1) : ~spineItemMatches(spine[i], nav.href)
                    /\ SplitHash(nav.href) # nav.href => t[k - 1].step = 2
        /\ nav.phase = "done" => t[Len(t)].outcome = "resolved"
        /\ nav.phase = "display" => t[Len(t)].outcome = "pending"

\* the first two displays rejected and the display of the spine entry resolved
C14_Witness ==
    /\ nav.phase = "done"
    /\ Len(nav.tried) = 3
    /\ nav.tried[1].outcome = "rejected"
    /\ nav.tried[2].outcome = "rejected"
    /\ nav.tried[3].step = 3
    /\ shown = nav.tried[3].target

\* the spine entry's path equals x or one of the two is a suffix of the other
PathMatches(item, x) == item = x \/ EndsWith(x, item) \/ EndsWith(item, x)

\* C15 as stated (its equality and suffix part): once the third step has run,
\* if some spine entry's path equals, is a suffix of or has as a suffix the
\* requested href or its fragment-stripped form, the first such entry in spine
\* order has been handed to display.
C15_FirstMatchingEntryDisplayed ==
    LET matching == {k \in DOMAIN spine :
                        \/ PathMatches(spine[k], nav.href)
                        \/ PathMatches(spine[k], SplitHash(nav.href))}
        first == CHOOSE k \in matching : \A j \in matching : k <= j
    IN  (nav.scanned /\ matching # {}) =>
            \E k \in DOMAIN nav.tried :
                nav.tried[k].step = 3 /\ nav.tried[k].target = spine[first]

(***************************************************************************)
(* Properties of the durable progress writes, checked under SpecDurable.   *)
(***************************************************************************)
\* C18 as stated: once every durable write called so far has completed, the
\* record of each book in durable storage holds the location and percentage of
\* the book's entry in the in-memory list, however the reads and puts of
\* successive flushes interleave.
C18_DurableMatchesMemory ==
    (\A n \in DOMAIN dbOps : dbOps[n].phase = "done") =>
        \A b \in BookIds : durable[b] = books[b]

\* C19 as stated: when a teardown flushes a pending write, the durable write of
\* that flush has completed by the time the book handle is released.
C19_TeardownAwaitsDurableWrite ==
    [][ (TeardownStep /\ pendingProgressSave # NoPending) =>
            /\ dbOps'[Len(dbOps')].phase = "done"
            /\ durable'[pendingProgressSave.bookId] =
                   [cfi |-> pendingProgressSave.cfi,
                    progress |-> pendingProgressSave.percentage]
      ]_vars

(***************************************************************************)
(* Properties of the chapter lookup, checked under SpecChapter.            *)
(***************************************************************************)
\* the entries of a table of contents in depth-first order, an entry before
\* its subitems
RECURSIVE DepthFirst(_)
DepthFirst(items) ==
    IF items = <<>> THEN <<>>
    ELSE <<Head(items)>> \o DepthFirst(Head(items).subitems) \o DepthFirst(Tail(items))

First(S) == CHOOSE i \in S : \A j \in S : i <= j

\* the positions, in depth-first order, of the entries whose fragment-stripped
\* href is a substring of h
SubstringMatches(t, h) ==
    {i \in DOMAIN DepthFirst(t) : Includes(h, SplitHash(DepthFirst(t)[i].href))}

\* the same among the entries that have an href
LinkedMatches(t, h) ==
    {i \in SubstringMatches(t, h) : DepthFirst(t)[i].href # <<>>}

\* C31 as stated: the lookup returns the label of the first entry, in
\* depth-first order, whose fragment-stripped href is a substring of the
\* location's href, and none if there is no such entry.
C31_FirstSubstringMatch ==
    chapterLookup.made =>
        LET S == SubstringMatches(navToc, chapterLookup.href) IN
        chapterLookup.result =
            IF S = {} THEN NoChapter ELSE DepthFirst(navToc)[First(S)].label

\* C31: among the entries that have an href, the lookup takes the first, in
\* depth-first order, whose fragment-stripped href is a substring of the
\* location's href: when that entry has a label the lookup returns it and it
\* becomes the current chapter; when no entry matches the lookup returns none
\* and the current chapter is left as it was; and whatever the lookup
\* returns is none or the label of a matching entry.
C31_FirstLinkedMatch ==
    /\ [](chapterLookup.made =>
          LET S == LinkedMatches(navToc, chapterLookup.href)
              flat == DepthFirst(navToc)
          IN  /\ S = {} => chapterLookup.result = NoChapter
              /\ (S # {} /\ flat[First(S)].label # "") =>
                    /\ chapterLookup.result = flat[First(S)].label
                    /\ currentChapter = chapterLookup.result
              /\ \/ chapterLookup.result = NoChapter
                 \/ \E i \in S : flat[i].label = chapterLookup.result)
    /\ [][ \A h \in LocationHrefs :
             (navToc # NoToc /\ chapterLookup' = [href |-> h, result |-> NoChapter, made |-> TRUE])
                => currentChapter' = currentChapter ]_vars

\* a lookup passed over an entry without href and a non-matching part, and
\* returned the label of a chapter under the part, matched through the
\* fragment-stripped href of a place in it
C31_Witness ==
    /\ chapterLookup.made
    /\ chapterLookup.href = <<"o", "/", "c", "1">>
    /\ navToc[1].href = <<>>
    /\ navToc[1].subitems[1].href = <<"c", "2">>
    /\ navToc[1].subitems[2].href = <<"c", "1", "#", "s">>
    /\ navToc[2].href = <<"c", "1">>
    /\ chapterLookup.result = "Two"
    /\ currentChapter = "Two"

(***************************************************************************)
(* Properties of the throttle timer, checked under SpecProgress.           *)
(***************************************************************************)
\* this step handles a LocationEvent for the current book
LocationStep == nEvents' = nEvents + 1 /\ currentBook # NoBook

\* this step runs the callback of a due timer
TimerStep == Len(armedTimers') < Len(armedTimers) /\ bookRef' = bookRef /\ nEvents' = nEvents

\* C32: at most one throttle timer is armed at any time, and it is the one the
\* timer handle holds.  A LocationEvent that arrives while a timer is armed
\* only overwrites the pending slot: it writes nothing, arms no timer and
\* leaves the armed one due when it was.  A LocationEvent is flushed at once
\* only when at least 1500 ms have passed since the last flush and no timer
\* is armed.  When the timer fires the timer handle is cleared.
C32_OneTimerArmed ==
    /\ [](/\ Len(armedTimers) <= 1
          /\ armedTimers = IF progressSaveTimer = NoTimer THEN <<>> ELSE <<progressSaveTimer>>)
    /\ [][ /\ (LocationStep /\ armedTimers # <<>>) =>
                /\ pendingProgressSave' = EventSave(lastEvent')
                /\ armedTimers' = armedTimers
                /\ progressSaveTimer' = progressSaveTimer
                /\ dbCalls' = dbCalls
                /\ lastProgressSaveAt' = lastProgressSaveAt
                /\ books' = books
                /\ effects' = <<>>
           /\ (LocationStep /\ dbCalls' # dbCalls) =>
                /\ now - lastProgressSaveAt >= throttleMs
                /\ armedTimers = <<>>
                /\ progressSaveTimer = NoTimer
                /\ armedTimers' = <<>>
           /\ TimerStep =>
                /\ progressSaveTimer' = NoTimer
                /\ armedTimers' = <<>>
       ]_vars

\* a third LocationEvent has arrived while the timer armed by the second was
\* still armed: it is the pending one and the timer is due when it was
C32_Witness ==
    /\ nEvents = 3
    /\ lastEvent.coalesced
    /\ lastEvent.handle = bookRef
    /\ lastEvent.at > prevEvent.at
    /\ pendingProgressSave = EventSave(lastEvent)
    /\ armedTimers = <<progressSaveTimer>>
    /\ progressSaveTimer = prevEvent.flushAt + throttleMs
    /\ progressSaveTimer > now

(***************************************************************************)
(* Properties of the state the hook exposes, checked under SpecView.       *)
(***************************************************************************)
\* this step runs a promise callback of a session whose book is destroyed
DeadSessionSettles == \E p \in thens : p \notin thens' /\ p.handle \notin liveHandles

\* C33 as stated: a promise of a torn-down session that settles after the
\* teardown changes neither the table of contents, nor the ready flag, nor
\* the chapter label the hook exposes; and the ready flag of a session is
\* false as long as that session's own first display has not completed.
C33_DeadSessionsIgnored ==
    /\ []((bookRef # NoHandle /\ Then("display", bookRef, hookInstance) \in thens)
            => ~isReady)
    /\ [][DeadSessionSettles => UNCHANGED <<toc, isReady, currentChapter>>]_vars

(***************************************************************************)
(* Properties of page-turn navigation, checked under SpecPageTurn.         *)
(***************************************************************************)
\* the page turns of reader instance i that are in flight
TurnsInFlight(i) == {p \in pageTurns : p.instance = i}

\* C34: page turns are one at a time.  Every reader has at most one next or
\* previous request in flight, its in-flight flag is set exactly while it has
\* one, and at most one request in flight is on a book that is not destroyed.
\* A key that arrives while the reader has a request in flight, or while its
\* table of contents is open, makes no request and sets nothing, and no
\* request is made later on its behalf.  When a request settles, resolved or
\* rejected, the reader's flag is idle again at once.
C34_OneTurnAtATime ==
    /\ [](/\ \A i \in 1..MaxHandles :
                /\ Cardinality(TurnsInFlight(i)) <= 1
                /\ isNavigatingRef[i] <=> TurnsInFlight(i) # {}
          /\ Cardinality({p \in pageTurns : p.handle \in liveHandles}) <= 1)
    /\ [][ /\ (hookInstance # NoInstance /\ turnsMade' # turnsMade) =>
                /\ ~showToc[hookInstance]
                /\ TurnsInFlight(hookInstance) = {}
                /\ keysDropped' = keysDropped
           /\ keysDropped' # keysDropped =>
                /\ showToc[hookInstance] \/ TurnsInFlight(hookInstance) # {}
                /\ UNCHANGED <<pageTurns, turnsMade, isNavigatingRef, hookVars, storeVars,
                               appVars>>
           /\ pageTurns' # pageTurns => Cardinality(pageTurns') # Cardinality(pageTurns)
           /\ Cardinality(pageTurns') < Cardinality(pageTurns) =>
                /\ turnsMade' = turnsMade
                /\ \A p \in pageTurns \ pageTurns' :
                      /\ ~isNavigatingRef'[p.instance]
                      /\ lastSettled'.id = p.id
       ]_vars

\* a key was dropped while a request was in flight; the request has since
\* been rejected, the flag is idle and a second request is in flight
C34_Witness ==
    /\ keysDropped >= 1
    /\ lastSettled = [id |-> 1, ok |-> FALSE]
    /\ hookInstance = 1
    /\ ~showToc[1]
    /\ isNavigatingRef[1]
    /\ \E p \in pageTurns : p.id = 2 /\ p.instance = 1 /\ p.dir = "prev"

(***************************************************************************)
(* Properties of the time estimate, checked under SpecReading.             *)
(***************************************************************************)
\* this step handles a LocationEvent
RelocatedStep == nEvents' = nEvents + 1

\* the session has had no LocationEvent yet
NoEventYet == nEvents = 0 \/ lastEvent.handle # bookRef

NewBookIds == {"C"}

\* an object store with the value put under the key
StorePut(store, key, value) ==
    [k \in DOMAIN store \cup {key} |-> IF k = key THEN value ELSE store[k]]

\* an object store without the key
StoreDelete(store, key) ==
    [k \in DOMAIN store \ {key} |-> store[k]]

saveBookTx(tx, recs, files) ==
    [books |-> StorePut(recs, tx.id, InitialPosition), files |-> files \cup {tx.id},
     then |-> <<>>]

deleteBookTx(tx, recs, files) ==
    [books |-> StoreDelete(recs, tx.id), files |-> files \ {tx.id}, then |-> <<>>]

\* const book = await db.get('books', id); if (book) { ...; await db.put('books', book) }
progressGetTx(tx, recs, files) ==
    [books |-> recs, files |-> files,
     then |-> IF tx.id \in DOMAIN recs
              THEN <<[kind |-> "put", id |-> tx.id,
                      cfi |-> tx.cfi, progress |-> tx.progress, book |-> recs[tx.id]]>>
              ELSE <<>>]

progressPutTx(tx, recs, files) ==
    [books |-> StorePut(recs, tx.id, [tx.book EXCEPT !.cfi = tx.cfi, !.progress = tx.progress]),
     files |-> files, then |-> <<>>]

\* what running a transaction leaves in the two stores, and the transaction
\* its caller creates when it has run
runTransaction(tx, recs, files) ==
    CASE tx.kind = "save" -> saveBookTx(tx, recs, files)
      [] tx.kind = "delete" -> deleteBookTx(tx, recs, files)
      [] tx.kind = "get" -> progressGetTx(tx, recs, files)
      [] tx.kind = "put" -> progressPutTx(tx, recs, files)

NoStep == [cfi |-> "", progress |-> 0, book |-> InitialPosition]

\* handleFileUpload: saveBook(newBook, arrayBuffer) with a new id
SaveBook(id) ==
    /\ id \notin idsMade
    /\ txMade < MaxTransactions
    /\ idsMade' = idsMade \cup {id}
    /\ transactions' = Append(transactions, [kind |-> "save", id |-> id] @@ NoStep)
    /\ txMade' = txMade + 1
    /\ UNCHANGED <<clientVars, now, storeVars, appVars, hookVars, dbVars, eventVars,
                   contentVars, navVars, cacheVars, viewVars, pageVars, bookRecords,
                   fileRecords>>

\* handleRemove: deleteBook(id) of a book the library lists
DeleteBook(id) ==
    /\ id \in idsMade
    /\ txMade < MaxTransactions
    /\ transactions' = Append(transactions, [kind |-> "delete", id |-> id] @@ NoStep)
    /\ txMade' = txMade + 1
    /\ UNCHANGED <<clientVars, now, storeVars, appVars, hookVars, dbVars, eventVars,
                   contentVars, navVars, cacheVars, viewVars, pageVars, bookRecords,
                   fileRecords, idsMade>>

\* updateBookProgress(id, cfi, progress) is called for a book that is being
\* read: its db.get is requested
UpdateBookProgress(id, loc) ==
    /\ id \in DOMAIN bookRecords
    /\ txMade < MaxTransactions
    /\ transactions' = Append(transactions,
                              [kind |-> "get", id |-> id, cfi |-> loc.cfi,
                               progress |-> loc.percentage, book |-> InitialPosition])
    /\ txMade' = txMade + 1
    /\ UNCHANGED <<clientVars, now, storeVars, appVars, hookVars, dbVars, eventVars,
                   contentVars, navVars, cacheVars, viewVars, pageVars, bookRecords,
                   fileRecords, idsMade>>

\* the oldest transaction runs and completes; the caller that awaited it goes on
TransactionRuns ==
    /\ transactions # <<>>
    /\ LET after == runTransaction(Head(transactions), bookRecords, fileRecords)
       IN /\ bookRecords' = after.books
          /\ fileRecords' = after.files
          /\ transactions' = Tail(transactions) \o after.then
    /\ UNCHANGED <<clientVars, now, storeVars, appVars, hookVars, dbVars, eventVars,
                   contentVars, navVars, cacheVars, viewVars, pageVars, idsMade, txMade>>

NextDatabase ==
    \/ \E id \in NewBookIds : SaveBook(id)
    \/ \E id \in BookIds \cup NewBookIds : DeleteBook(id)
    \/ \E id \in BookIds \cup NewBookIds, loc \in Locations : UpdateBookProgress(id, loc)
    \/ TransactionRuns

SpecDatabase == Init /\ [][NextDatabase]_vars

(***************************************************************************)
(* Properties of the spacing of flushes, checked under SpecProgress.       *)
(***************************************************************************)
\* C36: in one mounted reader, a flush made by a LocationEvent or by the
\* throttle timer comes at least 1500 ms after the one of these before it,
\* whatever was torn down and flushed in between.
C36_SteadyFlushesApart ==
    steadyFlush.before # NoFlushTime => steadyFlush.at - steadyFlush.before >= throttleMs

\* the timer made the second of two flushes of the second reader, exactly
\* 1500 ms after the first
C36_Witness ==
    /\ steadyFlush.before # NoFlushTime
    /\ steadyFlush.at - steadyFlush.before = throttleMs
    /\ steadyFlush.instance = hookInstance
    /\ instancesMade = 2
    /\ nCoalesced > 0

(***************************************************************************)
(* Properties of the pending slot, checked under Spec.                     *)
(***************************************************************************)
\* what the latest LocationEvent reported, as scheduleProgressSave was given it
LatestPosition ==
    [bookId |-> lastEvent.bookId, cfi |-> lastEvent.cfi, percentage |-> lastEvent.percentage]

\* C37: while a book is current, the position of the latest LocationEvent is
\* in the pending slot, or the slot is empty and the latest flush wrote
\* exactly that position.
C37_LatestPositionKept ==
    (currentBook # NoBook /\ nEvents > 0)
        => \/ pendingProgressSave = LatestPosition
           \/ /\ pendingProgressSave = NoPending
              /\ lastDbCall = LatestPosition
              /\ dbCalls > 0

\* the latest event replaced a position that was waiting in the slot, and
\* the timer has since written it
C37_Witness ==
    /\ currentBook # NoBook
    /\ bookRef # NoHandle
    /\ lastEvent.coalesced
    /\ prevEvent.handle = lastEvent.handle
    /\ prevEvent.cfi # lastEvent.cfi
    /\ pendingProgressSave = NoPending
    /\ lastDbCall = LatestPosition
    /\ steadyFlush.at > lastEvent.at

(***************************************************************************)
(* Properties of the file the reader is given, checked under Spec.         *)
(***************************************************************************)
\* C38: whenever the reader is shown for the current book, the file it was
\* given is the file stored for that book.
C38_ReaderRendersCurrentBook ==
    ReaderShown => bookData = currentBook

(***************************************************************************)
(* Properties of the two object stores, checked under SpecDatabase.        *)
(***************************************************************************)
\* C39: a book has a metadata record in the database exactly when it has a
\* file record.
C39_MetadataIffFile ==
    DOMAIN bookRecords = fileRecords

(***************************************************************************)
(* Properties of an attempt that got no response, checked under SpecClient.*)
(***************************************************************************)
\* the attempts of the call that ended without a usable HTTP response: the
\* fetch was rejected, or the body of a 2xx response was not JSON
NoResponseAttempts ==
    {i \in DOMAIN served : served[i].kind \in {"reject", "badjson"}}

====
